---- MODULE Spec2Model ----
(***************************************************************************)
(* A model of pelicun's damage and loss determination pipeline             *)
(* (src/pelicun/model.py): DamageModel.calculate with its helpers, the     *)
(* damage process engine and the repair consequence engine.                *)
(*                                                                         *)
(* Tables (pandas DataFrames) are functions from column keys to rows,      *)
(* a row being a function from the realizations to values.  Quantities     *)
(* that the code holds as floats are exact here: demands are integers in   *)
(* tenths (so that the 1.2 non-directional multiplier stays exact), and    *)
(* damaged quantities and consequences are fractions [n, d] in lowest      *)
(* terms.                                                                  *)
(***************************************************************************)
EXTENDS Integers, Sequences, FiniteSets, TLC

VARIABLES
    pc,               \* position of the modelled call
    log,              \* sequence of messages handed to log_msg
    \* ---- one pass of the loop body of DamageModel.calculate ----
    frg_params,       \* damage_params.loc[cmp_id]: the limit states of the PG
    attribute_str,    \* the Blocks cell of the component's row in the model file
    Blocks,           \* cmp_marginal_params.loc[PG, 'Blocks']
    capacity_sample,  \* (block, ls) -> realization -> capacity
    lsds_sample,      \* (block, ls) -> realization -> damage state pick
    capacity_RV_sets, \* the RV sets of the capacity registry of the PG
    EDP_req,          \* [EDP_type, location, direction] required by the PG
    demand_columns,   \* columns of the demand sample (demand.sample.columns)
    demand,           \* realization -> demand (tenths), or None
    error,            \* the exception that left the call, or None
    ds_sample,        \* block -> realization -> damage state
    cmp_qnt,          \* realization -> component quantity of the PG
    res,              \* prepare_dmg_quantities: ds -> realization -> quantity
    \* ---- the damage process of DamageModel.calculate ----
    cmp_sample,       \* asset.cmp_sample: PG -> realization -> quantity
    ds_samples,       \* PG -> the ds_sample of the PG
    dmg_process,      \* the sequence of tasks handed to calculate
    task_i,           \* position in "for task in dmg_process.items()"
    qnt_sample,       \* (cmp, loc, dir, ds) -> realization -> quantity
    damage_sample,    \* DamageModel._sample
    \* ---- BldgRepairModel._generate_DV_sample ----
    eco_scale,        \* options.eco_scale
    eco_qnt,          \* pooled damage quantities
    medians,          \* DV type -> median consequences
    DV_sample,        \* the consequences before the replacement override
    loss_sample,      \* BldgRepairModel._sample
    \* ---- base.Logger ----
    warning_stack,    \* Logger.warning_stack
    emitted,          \* Logger.emitted
    issued,           \* the messages handed to warnings.warn, in order
    logger_call,      \* the Logger method that has just returned
    requested,        \* the messages the callers passed in, in order
    \* ---- base.Options ----
    options,          \* per Options object: _seed, _rng and the numbers drawn
    \* ---- DemandModel.sample / AssetModel.cmp_sample ----
    model_kind,       \* 'EDP' (DemandModel) or 'CMP' (AssetModel)
    marginal_params,  \* marginal_params / cmp_marginal_params
    _RVs,             \* _RVs / _cmp_RVs: the registry with its RV_sample
    _sample,          \* _sample / _cmp_sample
    returned,         \* the table the last read of the property returned
    last_call,        \* the method called last
    last_write,       \* the method that last loaded or generated a sample
    n_calls,          \* the number of calls so far
    \* ---- DL_calculation.run_pelicun ----
    run_args,         \* the arguments of run_pelicun and the config file
    config,           \* config, as run_pelicun updates it
    PAL,              \* the Assessment, once created
    directory,        \* the files in output_path
    out_files,        \* out_files
    return_int,       \* what run_pelicun returned
    \* ---- the location strings of the component assignment ----
    loc_str,          \* the location string, as the list of its pieces
    stories,          \* Assessment.stories
    locations,        \* the array the parser returned
    \* ---- DemandModel.calibrate_model ----
    cal_sample,       \* the raw demand sample (self.sample)
    cal_config,       \* config, the calibration settings
    empirical_data,   \* empirical_data
    fitted_edps,      \* the demands passed to fit_distribution_to_sample
    \* ---- BldgRepairModel.aggregate_losses ----
    DV,               \* self.sample of the repair model: column -> realization -> value
    df_agg,           \* the summary table returned: column -> realization -> value
    \* ---- DamageModel.load_damage_model and the PG loop of calculate ----
    damage_db,        \* the damage parameter table as loaded: component -> row
    damage_params,    \* self.damage_params: component -> row
    PG_i,             \* position of the loop over the performance groups
    \* ---- BldgRepairModel._create_DV_RVs ----
    loss_params,      \* loss_params: (name, DV type) -> damage state -> Family and Theta_1
    case_list,        \* the columns (cmp, loc, dir, ds) of the damaged quantities
    rho_cost_time,    \* options.rho_cost_time
    RV_reg            \* the registry _create_DV_RVs returns, or None

evalVars == <<frg_params, attribute_str, Blocks, capacity_sample, lsds_sample,
              capacity_RV_sets, EDP_req,
              demand_columns, demand, ds_sample, cmp_qnt, res>>

procVars == <<cmp_sample, ds_samples, dmg_process, task_i, qnt_sample,
              damage_sample>>

lossVars == <<eco_scale, eco_qnt, medians, DV_sample, loss_sample>>

loggerVars == <<warning_stack, emitted, issued, logger_call, requested>>

\* the variables of the damage and loss calculation
coreVars == <<pc, log, error, evalVars, procVars, lossVars>>

\* the variables of the other parts of the package
optionsVars == <<options>>

sampleVars == <<model_kind, marginal_params, _RVs, _sample, returned,
                last_call, last_write, n_calls>>

outputVars == <<run_args, config, PAL, directory, out_files, return_int>>

locVars == <<loc_str, stories, locations>>

calVars == <<cal_sample, cal_config, empirical_data, fitted_edps>>

aggVars == <<DV, df_agg>>

loadVars == <<damage_db, damage_params, PG_i>>

dvrvVars == <<loss_params, case_list, rho_cost_time, RV_reg>>

auxVars == <<loggerVars, optionsVars, sampleVars, outputVars, locVars, calVars, aggVars, loadVars, dvrvVars>>

\* the variables of the other parts, seen from each part
auxButLogger == <<optionsVars, sampleVars, outputVars, locVars, calVars, aggVars, loadVars, dvrvVars>>

auxButOptions == <<loggerVars, sampleVars, outputVars, locVars, calVars, aggVars, loadVars, dvrvVars>>

auxButSample == <<loggerVars, optionsVars, outputVars, locVars, calVars, aggVars, loadVars, dvrvVars>>

auxButOutput == <<loggerVars, optionsVars, sampleVars, locVars, calVars, aggVars, loadVars, dvrvVars>>

auxButLoc == <<loggerVars, optionsVars, sampleVars, outputVars, calVars, aggVars, loadVars, dvrvVars>>

auxButCal == <<loggerVars, optionsVars, sampleVars, outputVars, locVars, aggVars, loadVars, dvrvVars>>

auxButAgg == <<loggerVars, optionsVars, sampleVars, outputVars, locVars, calVars, loadVars, dvrvVars>>

auxButLoad == <<loggerVars, optionsVars, sampleVars, outputVars, locVars, calVars, aggVars, dvrvVars>>

auxButDVRV == <<loggerVars, optionsVars, sampleVars, outputVars, locVars, calVars, aggVars, loadVars>>

vars == <<coreVars, auxVars>>

----------------------------------------------------------------------------
(* Bounds of the model *)

NReal == 2          \* number of realizations (sample_size)
MaxRVs == 3         \* random variables (capacities, multinomial picks) of a PG
MaxCapacity == 3    \* capacities are drawn from 1..MaxCapacity
MaxDemand == 3      \* demand sample values are drawn from 0..MaxDemand
MaxQnt == 2         \* component quantities are drawn from 1..MaxQnt
MaxWeight == 2      \* explicit block weights are drawn from 1..MaxWeight
MaxDSWeights == 2   \* entries of a DamageStateWeights string
MaxTasks == 2       \* tasks of a damage process

Realizations == 1..NReal

None == <<>>             \* a missing table, or an empty (NaN) cell of an input
NoError == "None"        \* no exception has been raised
NaN == [nan |-> TRUE]    \* an undefined quantity

----------------------------------------------------------------------------
(* Generic helpers *)

Max(a, b) == IF a >= b THEN a ELSE b

RECURSIVE SumSeq(_)
SumSeq(s) == IF s = <<>> THEN 0 ELSE Head(s) + SumSeq(Tail(s))

RECURSIVE SumOver(_, _)
\* sum of f[x] for x in S
SumOver(f, S) ==
    IF S = {} THEN 0
    ELSE LET x == CHOOSE y \in S : TRUE IN f[x] + SumOver(f, S \ {x})

RECURSIVE MaxOver(_, _)
\* max of f[x] for x in the non-empty set S
MaxOver(f, S) ==
    LET x == CHOOSE y \in S : TRUE IN
    IF S = {x} THEN f[x] ELSE Max(f[x], MaxOver(f, S \ {x}))

\* str(n) as the sequence of its decimal digits
Digits(n) == IF n < 10 THEN <<n>> ELSE <<n \div 10, n % 10>>

RECURSIVE LexLess(_, _)
\* s sorts strictly before t in the lexicographic order of strings
LexLess(s, t) ==
    IF t = <<>> THEN FALSE
    ELSE IF s = <<>> THEN TRUE
    ELSE IF Head(s) # Head(t) THEN Head(s) < Head(t)
    ELSE LexLess(Tail(s), Tail(t))

\* the part of the RV tag 'FRG-cmp-loc-dir-block-ls' that differs within a
\* PG; '-' sorts before every digit
TagKey(col) == Digits(col[1]) \o <<-1>> \o Digits(col[2])

RECURSIVE SortColumns(_)
\* sort_index(axis=1) on the RV tags: the columns in lexicographic order
SortColumns(cols) ==
    IF cols = {} THEN <<>>
    ELSE LET first == CHOOSE c \in cols :
                        \A d \in cols \ {c} : LexLess(TagKey(c), TagKey(d))
         IN <<first>> \o SortColumns(cols \ {first})

RECURSIVE UniqueInOrder(_)
\* Index.unique(): the values in the order of their first appearance
UniqueInOrder(s) ==
    IF s = <<>> THEN <<>>
    ELSE LET rest == UniqueInOrder(SubSeq(s, 1, Len(s) - 1))
             last == s[Len(s)]
         IN IF \E i \in 1..Len(rest) : rest[i] = last
            THEN rest ELSE Append(rest, last)

----------------------------------------------------------------------------
(* Quantities: exact fractions n/d with d > 0, or NaN *)

RECURSIVE GCD(_, _)
GCD(a, b) == IF b = 0 THEN a ELSE GCD(b, a % b)

Rat(n, d) == LET g == GCD(n, d) IN
             IF g = 0 THEN [n |-> 0, d |-> 1] ELSE [n |-> n \div g, d |-> d \div g]

RatInt(k) == [n |-> k, d |-> 1]
RatZero == RatInt(0)
RatAdd(a, b) == Rat(a.n * b.d + b.n * a.d, a.d * b.d)
RatMul(a, b) == Rat(a.n * b.n, a.d * b.d)
RatDiv(a, b) == Rat(a.n * b.d, a.d * b.n)
RatPos(a) == a.n > 0

RECURSIVE RatSumOver(_, _)
\* sum of f[x] for x in S
RatSumOver(f, S) ==
    IF S = {} THEN RatZero
    ELSE LET x == CHOOSE y \in S : TRUE IN RatAdd(f[x], RatSumOver(f, S \ {x}))

RECURSIVE RatSumSeq(_)
RatSumSeq(s) == IF s = <<>> THEN RatZero ELSE RatAdd(Head(s), RatSumSeq(Tail(s)))

----------------------------------------------------------------------------
(* AssetModel.load_cmp_model: the Blocks attribute of a component *)

\* The Blocks cell of the component table: empty, a block count <<n>>, or
\* a comma-separated list of block weights (two of them here).
BlocksAttributes ==
    {None}
    \cup {<<n>> : n \in 1..MaxRVs}
    \cup [1..2 -> 1..MaxWeight]

\* get_attribute returning the list of weights as written, not normalized
get_attribute_raw_weights(attr) ==
    IF attr = None
    THEN <<RatInt(1)>>
    ELSE [i \in 1..Len(attr) |-> RatInt(attr[i])]

\* get_attribute(attribute_str, dtype=int, default=1.0)
get_attribute(attr) ==
    IF attr = None
    THEN <<RatInt(1)>>                       \* pd.isnull: the default
    ELSE IF Len(attr) = 1
    THEN <<RatInt(attr[1])>>                 \* dtype(attribute_str)
    ELSE LET w == attr                       \* a list of weights
             total == SumSeq(w)
         IN [i \in 1..Len(w) |-> Rat(w[i], total)]

\* "if the number of blocks is provided, calculate the weights": the
\* weight of each block of a PG, from cmp_marginal_params.loc[PG, 'Blocks']
block_weights(blocks) ==
    IF Len(blocks) = 1
    THEN [i \in 1..(blocks[1].n \div blocks[1].d) |-> RatDiv(RatInt(1), blocks[1])]
    ELSE blocks

----------------------------------------------------------------------------
(* DamageModel._create_dmg_RVs *)

\* damage_params.loc[cmp_id]: the defined limit states LS1..LSn of a
\* component, each with its DamageStateWeights: the number of weights in
\* the string, 0 for an empty cell
FrgParams ==
    UNION {[1..n -> {0} \cup 2..MaxDSWeights] : n \in 1..MaxRVs}

\* assign_lsds: the damage state id reached after this limit state
assign_lsds(ds_weights, ds_id) ==
    IF ds_weights = 0 THEN ds_id + 1 ELSE ds_id + ds_weights

\* the values the LSDS random variable added by assign_lsds can take
lsds_values(ds_weights, ds_id) ==
    IF ds_weights = 0
    THEN {ds_id + 1}
    ELSE {v + (ds_id + 1) : v \in 0..(ds_weights - 1)}

RECURSIVE ds_id_before(_, _)
\* ds_id of a block when the loop over limit_states reaches ls
ds_id_before(params, ls) ==
    IF ls = 1 THEN 0
    ELSE assign_lsds(params[ls - 1], ds_id_before(params, ls - 1))

\* the columns (block, ls) of the capacity and LSDS registries of a PG
rv_columns(params, blocks) ==
    {<<b, ls>> : b \in 1..Len(block_weights(blocks)), ls \in DOMAIN params}

\* The row of a component in the damage parameter table is the sequence of
\* its columns LS1..LSn, each a record
\*   [theta_0 |-> the limit state is defined (Theta_0 is not null),
\*    family |-> "function", "lognormal", ..., "None" for an empty cell,
\*    ds_weights |-> the number of DamageStateWeights, 0 for an empty cell]

\* ~pd.isnull(theta_0): pd.isnull of a scalar is a Python bool, and its
\* complement is the integer -1 (not null) or -2 (null)
complement_isnull(cell) == IF cell.theta_0 THEN -1 ELSE -2

\* "if ~pd.isnull(theta_0)": an integer is true unless it is 0, so the
\* check lets the undefined limit states through as well
limit_state_is_defined(cell) == complement_isnull(cell) # 0

\* the tags (block_id, ls_id) of the random variables of a PG, each with
\* the damage block ls_i it was made for (-1 for a fragility function)
dmg_RV_tags(params, blocks) ==
    LET ls_count == Len(params)
        nb == Len(block_weights(blocks))
    IN UNION {
         IF ~limit_state_is_defined(params[ls]) THEN {}
         ELSE IF params[ls].family = "function"
         THEN {[tag |-> <<block_i * ls_count + ls_i + 1, ls>>, ls_i |-> ls_i] :
                  block_i \in 0..(nb - 1), ls_i \in 0..(ls_count - 1)}
         ELSE {[tag |-> <<block_i + 1, ls>>, ls_i |-> -1] : block_i \in 0..(nb - 1)}
         : ls \in DOMAIN params}

\* np.ones((n, n)): the matrix with n rows and n columns of ones
np_ones(n) == [ij \in (1..n) \X (1..n) |-> 1]

\* frg_rv_set_tags of a block after the loop over limit_states: the tag of
\* every limit state that passed the check and is not a damage function,
\* in the order of the limit states
frg_rv_set_tags(params, b) ==
    SelectSeq([ls \in 1..Len(params) |-> <<b, ls>>],
              LAMBDA t : /\ limit_state_is_defined(params[t[2]])
                         /\ params[t[2]].family # "function")

\* the RV sets added to capacity_RV_reg: for every block with a non-empty
\* frg_rv_set_tags, the RandomVariableSet named after the block, with the
\* random variables of these tags and np.ones((len, len)) as correlation
\* matrix
frg_RV_sets_of(params, blocks) ==
    {[name |-> <<"FRG", b, "set">>,
      RVs |-> frg_rv_set_tags(params, b),
      Rho |-> np_ones(Len(frg_rv_set_tags(params, b)))] :
        b \in {x \in 1..Len(block_weights(blocks)) :
                  Len(frg_rv_set_tags(params, x)) > 0}}

\* The samples the capacity registry of the PG can generate.  The model
\* draws one capacity per random variable and repeats it in every
\* realization (as np.ones(10000) * theta_0 does for a deterministic limit
\* state); realizations differ by their demand.
CapacitySamples(params, blocks) ==
    {[c \in rv_columns(params, blocks) |-> [r \in Realizations |-> v[c]]] :
        v \in [rv_columns(params, blocks) -> 1..MaxCapacity]}

\* The samples the LSDS registry of the PG can generate: every pick lies
\* among the values of its random variable; v is the multinomial outcome.
LsdsSamples(params, blocks) ==
    LET cols == rv_columns(params, blocks)
        outcomes == {v \in [cols -> 0..(MaxDSWeights - 1)] :
                        \A c \in cols : v[c] < Max(params[c[2]], 1)}
    IN {[c \in cols |-> [r \in Realizations |->
                           v[c] + ds_id_before(params, c[2]) + 1]] :
           v \in outcomes}

----------------------------------------------------------------------------
(* DamageModel._assemble_required_demand_data *)

\* the performance group whose pass through the loop of calculate is modelled
PG == <<"cmp", "1", "1">>

\* the columns (type, loc, dir) a demand sample may hold for the PG
DemandColumns == {<<"PID", "1", "1">>, <<"PID", "1", "2">>}

DemandSources ==
    UNION {[cols -> [Realizations -> 0..MaxDemand]] : cols \in SUBSET DemandColumns}

\* options.nondir_multi: the non-directional multiplier, in tenths
nondir_multi == 12

\* what the call returns or raises: [demand, error, log]
assemble_required_demand_data(req, demand_source, log0) ==
    LET at_loc == {c \in DOMAIN demand_source : c[1] = req[1] /\ c[2] = req[2]}
        found ==
            IF req[3] = "0"
            THEN \* the maximum of all available directions, scaled; a
                 \* KeyError of the lookup is caught and leaves None
                 IF at_loc = {} THEN None
                 ELSE [r \in Realizations |->
                         MaxOver([c \in at_loc |-> demand_source[c][r]], at_loc)
                         * nondir_multi]
            ELSE [r \in Realizations |-> demand_source[req][r] * 10]
    IN IF req[3] # "0" /\ req \notin DOMAIN demand_source
       THEN [demand |-> None, error |-> "KeyError", log |-> log0]
       ELSE [demand |-> found, error |-> NoError,
             log |-> IF found = None
                     THEN Append(log0, "WARNING: Cannot find demand data")
                     ELSE log0]

----------------------------------------------------------------------------
(* DamageModel._evaluate_damage_state *)

\* ls_list: the limit state ids in the order of the capacity columns
ls_list_of(columns) ==
    LET sorted == SortColumns(columns)
    IN UniqueInOrder([i \in 1..Len(sorted) |-> sorted[i][2]])

RECURSIVE update_ds(_, _, _, _)
\* the loop "for LS_id in ls_list": ds.mask(dmg_e_ls, lsds) for each limit
\* state in turn
update_ds(ds, ls_list, dmg_eval, lsds) ==
    IF ls_list = <<>> THEN ds
    ELSE LET LS_id == Head(ls_list)
             masked == [b \in DOMAIN ds |->
                          IF <<b, LS_id>> \in DOMAIN dmg_eval
                          THEN [r \in Realizations |->
                                  IF dmg_eval[<<b, LS_id>>][r]
                                  THEN lsds[<<b, LS_id>>][r]
                                  ELSE ds[b][r]]
                          ELSE ds[b]]
         IN update_ds(masked, Tail(ls_list), dmg_eval, lsds)

\* _evaluate_damage_state with a limit state counted as exceeded when its
\* capacity equals the demand
evaluate_damage_state_le(dem, capacity, lsds) ==
    LET dmg_eval == [c \in DOMAIN capacity |->
                       [r \in Realizations |-> capacity[c][r] * 10 - dem[r] <= 0]]
        blocks == {c[1] : c \in DOMAIN capacity}
        zeros == [b \in blocks |-> [r \in Realizations |-> 0]]
    IN update_ds(zeros, ls_list_of(DOMAIN capacity), dmg_eval, lsds)

\* capacities are compared with the demand in tenths
evaluate_damage_state(dem, capacity, lsds) ==
    LET dmg_eval == [c \in DOMAIN capacity |->
                       [r \in Realizations |-> capacity[c][r] * 10 - dem[r] < 0]]
        blocks == {c[1] : c \in DOMAIN capacity}
        zeros == [b \in blocks |-> [r \in Realizations |-> 0]]
    IN update_ds(zeros, ls_list_of(DOMAIN capacity), dmg_eval, lsds)

----------------------------------------------------------------------------
(* DamageModel.prepare_dmg_quantities, dropzero=False, dropempty=False *)

prepare_dmg_quantities(dmg_ds, qnt, blocks) ==
    LET w == block_weights(blocks)
        dmg_qnt == [b \in DOMAIN dmg_ds |->
                      [r \in Realizations |->
                         IF b \in DOMAIN w
                         THEN RatMul(RatInt(qnt[r]), w[b]) ELSE RatZero]]
        ds_list == {dmg_ds[b][r] : b \in DOMAIN dmg_ds, r \in Realizations}
    IN [ds_i \in ds_list |->
          [r \in Realizations |->
             RatSumOver([b \in DOMAIN dmg_ds |-> dmg_qnt[b][r]],
                        {b \in DOMAIN dmg_ds : dmg_ds[b][r] = ds_i})]]

----------------------------------------------------------------------------
(* One pass of the loop body of DamageModel.calculate, for one PG *)

\* the evaluation of a performance group is not running
IdleEval ==
    /\ frg_params = None
    /\ attribute_str = None
    /\ Blocks = None
    /\ capacity_sample = None
    /\ lsds_sample = None
    /\ capacity_RV_sets = {}
    /\ EDP_req = None
    /\ demand_columns = {}
    /\ demand = None
    /\ ds_sample = None
    /\ cmp_qnt = None
    /\ res = None

\* no Logger method has been called
IdleLogger ==
    /\ warning_stack = <<>>
    /\ emitted = {}
    /\ issued = <<>>
    /\ logger_call = "None"
    /\ requested = <<>>

\* no Options object is followed
IdleOptions == options = <<>>

\* no sample-holding model is followed
IdleSample ==
    /\ model_kind = "None"
    /\ marginal_params = <<>>
    /\ _RVs = <<>>
    /\ _sample = <<>>
    /\ returned = <<>>
    /\ last_call = "None"
    /\ last_write = "None"
    /\ n_calls = 0

\* run_pelicun is not called
IdleOutput ==
    /\ run_args = <<>>
    /\ config = <<>>
    /\ PAL = "None"
    /\ directory = {}
    /\ out_files = <<>>
    /\ return_int = 0

\* no location string is parsed
IdleLoc ==
    /\ loc_str = <<>>
    /\ stories = 0
    /\ locations = <<>>

\* no demand model is calibrated
IdleCal ==
    /\ cal_sample = <<>>
    /\ cal_config = <<>>
    /\ empirical_data = <<>>
    /\ fitted_edps = {}

\* no repair consequences are being aggregated
IdleAgg ==
    /\ DV = <<>>
    /\ df_agg = <<>>

\* no damage model is being loaded
IdleLoad ==
    /\ damage_db = <<>>
    /\ damage_params = <<>>
    /\ PG_i = 0

\* no decision-variable deviations are being prepared
IdleDVRV ==
    /\ loss_params = <<>>
    /\ case_list = {}
    /\ rho_cost_time = 0
    /\ RV_reg = <<>>

\* the other parts of the package are not in use
IdleAux == IdleLogger /\ IdleOptions /\ IdleSample /\ IdleOutput /\ IdleLoc /\ IdleCal /\ IdleAgg /\ IdleLoad /\ IdleDVRV

\* the other parts are not in use, seen from each part
IdleButLogger == IdleOptions /\ IdleSample /\ IdleOutput /\ IdleLoc /\ IdleCal /\ IdleAgg /\ IdleLoad /\ IdleDVRV

IdleButOptions == IdleLogger /\ IdleSample /\ IdleOutput /\ IdleLoc /\ IdleCal /\ IdleAgg /\ IdleLoad /\ IdleDVRV

IdleButSample == IdleLogger /\ IdleOptions /\ IdleOutput /\ IdleLoc /\ IdleCal /\ IdleAgg /\ IdleLoad /\ IdleDVRV

IdleButOutput == IdleLogger /\ IdleOptions /\ IdleSample /\ IdleLoc /\ IdleCal /\ IdleAgg /\ IdleLoad /\ IdleDVRV

IdleButLoc == IdleLogger /\ IdleOptions /\ IdleSample /\ IdleOutput /\ IdleCal /\ IdleAgg /\ IdleLoad /\ IdleDVRV

IdleButCal == IdleLogger /\ IdleOptions /\ IdleSample /\ IdleOutput /\ IdleLoc /\ IdleAgg /\ IdleLoad /\ IdleDVRV

IdleButAgg == IdleLogger /\ IdleOptions /\ IdleSample /\ IdleOutput /\ IdleLoc /\ IdleCal /\ IdleLoad /\ IdleDVRV

IdleButLoad == IdleLogger /\ IdleOptions /\ IdleSample /\ IdleOutput /\ IdleLoc /\ IdleCal /\ IdleAgg /\ IdleDVRV

IdleButDVRV == IdleLogger /\ IdleOptions /\ IdleSample /\ IdleOutput /\ IdleLoc /\ IdleCal /\ IdleAgg /\ IdleLoad

\* the loss calculation is not running
IdleLoss ==
    /\ eco_scale = None
    /\ eco_qnt = None
    /\ medians = None
    /\ DV_sample = None
    /\ loss_sample = None

\* the damage process part is not running
IdleProc ==
    /\ cmp_sample = None
    /\ ds_samples = None
    /\ dmg_process = None
    /\ task_i = 0
    /\ qnt_sample = None
    /\ damage_sample = None

InitEval ==
    /\ pc = "generate"
    /\ log = <<>>
    /\ frg_params \in FrgParams
    /\ attribute_str \in BlocksAttributes
    /\ Blocks = get_attribute(attribute_str)
    /\ Len(block_weights(Blocks))
          * (Len(frg_params) + Cardinality({ls \in DOMAIN frg_params : frg_params[ls] # 0}))
          <= MaxRVs
    /\ capacity_sample = None
    /\ lsds_sample = None
    /\ capacity_RV_sets = {}
    /\ EDP_req = None
    /\ demand_columns = {}
    /\ demand = None
    /\ error = NoError
    /\ ds_sample = None
    /\ cmp_qnt = None
    /\ res = None
    /\ IdleProc
    /\ IdleLoss
    /\ IdleAux

\* _generate_dmg_sample: the capacity and LSDS registries are sampled
GenerateDmgSample ==
    /\ pc = "generate"
    /\ capacity_sample' \in CapacitySamples(frg_params, Blocks)
    /\ lsds_sample' \in LsdsSamples(frg_params, Blocks)
    /\ capacity_RV_sets' =
          frg_RV_sets_of([ls \in DOMAIN frg_params |->
                            [theta_0 |-> TRUE, family |-> "lognormal",
                             ds_weights |-> frg_params[ls]]], Blocks)
    /\ pc' = "demand_type"
    /\ UNCHANGED <<auxVars, procVars, lossVars, log, frg_params, attribute_str, Blocks, EDP_req, demand_columns, demand,
                   error, ds_sample, cmp_qnt, res>>

\* get_required_demand_type: the PG's own direction for a directional
\* component, '0' otherwise
GetRequiredDemandType ==
    /\ pc = "demand_type"
    /\ \E directional \in BOOLEAN :
          EDP_req' = <<"PID", PG[2], IF directional THEN PG[3] ELSE "0">>
    /\ pc' = "demand"
    /\ UNCHANGED <<auxVars, procVars, lossVars, capacity_RV_sets, log, frg_params, attribute_str, Blocks, capacity_sample, lsds_sample,
                   demand_columns, demand, error, ds_sample, cmp_qnt, res>>

AssembleRequiredDemandData ==
    /\ pc = "demand"
    /\ \E demand_source \in DemandSources :
          LET out == assemble_required_demand_data(EDP_req, demand_source, log)
          IN /\ demand_columns' = DOMAIN demand_source
             /\ demand' = out.demand
             /\ error' = out.error
             /\ log' = out.log
             /\ pc' = IF out.error = NoError THEN "evaluate" ELSE "raised"
    /\ UNCHANGED <<auxVars, procVars, lossVars, capacity_RV_sets, frg_params, attribute_str, Blocks, capacity_sample, lsds_sample, EDP_req,
                   ds_sample, cmp_qnt, res>>

\* capacity_sample.sub(demand, axis=0) raises a TypeError for demand = None
EvaluateDamageState ==
    /\ pc = "evaluate"
    /\ IF demand = None
       THEN /\ error' = "TypeError"
            /\ pc' = "raised"
            /\ UNCHANGED ds_sample
       ELSE /\ ds_sample' = evaluate_damage_state(demand, capacity_sample, lsds_sample)
            /\ pc' = "quantities"
            /\ UNCHANGED error
    /\ UNCHANGED <<auxVars, procVars, lossVars, capacity_RV_sets, log, frg_params, attribute_str, Blocks, capacity_sample, lsds_sample, EDP_req,
                   demand_columns, demand, cmp_qnt, res>>

PrepareDmgQuantities ==
    /\ pc = "quantities"
    /\ cmp_qnt' \in [Realizations -> 1..MaxQnt]
    /\ res' = prepare_dmg_quantities(ds_sample, cmp_qnt', Blocks)
    /\ pc' = "done"
    /\ UNCHANGED <<auxVars, procVars, lossVars, capacity_RV_sets, log, frg_params, attribute_str, Blocks, capacity_sample, lsds_sample, EDP_req,
                   demand_columns, demand, error, ds_sample>>

NextEval ==
    \/ GenerateDmgSample
    \/ GetRequiredDemandType
    \/ AssembleRequiredDemandData
    \/ EvaluateDamageState
    \/ PrepareDmgQuantities

SpecEval == InitEval /\ [][NextEval]_vars

----------------------------------------------------------------------------
(* Properties of the damage state evaluation of one performance group *)

Evaluated == pc \in {"quantities", "done"}

\* a single block whose limit states each lead to one damage state, with
\* strictly increasing capacities in every realization
SingleBlockOrdered ==
    /\ Len(block_weights(Blocks)) = 1
    /\ \A ls \in DOMAIN frg_params : frg_params[ls] = 0
    /\ \A r \in Realizations : \A ls \in 1..(Len(frg_params) - 1) :
          capacity_sample[<<1, ls>>][r] < capacity_sample[<<1, ls + 1>>][r]

\* the index of the highest limit state whose capacity is below the demand
HighestExceeded(r) ==
    LET below == {ls \in DOMAIN frg_params :
                     capacity_sample[<<1, ls>>][r] * 10 < demand[r]}
    IN IF below = {} THEN 0
       ELSE CHOOSE ls \in below : \A other \in below : other <= ls

\* C1: for a single block with limit states LS1..LSn, each mapped to one
\* damage state, and capacities c1 < ... < cn, the damage state assigned in
\* every realization is the index of the highest LSi with ci < d (strictly),
\* and 0 when no capacity is below the demand d.
C1_HighestExceededLimitState ==
    (Evaluated /\ SingleBlockOrdered) =>
        \A r \in Realizations : ds_sample[1][r] = HighestExceeded(r)

\* three ordered limit states; one realization stops at LS2 because its
\* demand equals the capacity of LS3, another exceeds nothing
C1_Witness ==
    /\ Evaluated /\ SingleBlockOrdered
    /\ Len(frg_params) = 3
    /\ \E r \in Realizations :
          /\ capacity_sample[<<1, 3>>][r] * 10 = demand[r]
          /\ ds_sample[1][r] = 2
    /\ \E r \in Realizations : ds_sample[1][r] = 0

\* the block weights as written in the component table
RawWeights ==
    IF attribute_str = None THEN <<1>>
    ELSE IF Len(attribute_str) = 1 THEN [i \in 1..attribute_str[1] |-> 1]
    ELSE attribute_str

\* C7: prepare_dmg_quantities, as called by calculate: the quantity of a
\* component is split across its blocks equally for a block count n and by
\* the normalized weights for explicit weights; in every realization the
\* quantity reported in damage state s is the sum of the block quantities of
\* the blocks assigned s, and the quantities over all damage states,
\* including 0, add up to the total quantity of the component.
C7_BlockQuantities ==
    pc = "done" =>
        LET total == SumSeq(RawWeights) IN
        /\ DOMAIN ds_sample = 1..Len(RawWeights)
        /\ \A s \in DOMAIN res : \A r \in Realizations :
              LET in_s == {b \in DOMAIN ds_sample : ds_sample[b][r] = s}
              IN res[s][r].n * total
                    = res[s][r].d * cmp_qnt[r] * SumOver(RawWeights, in_s)
        /\ \A r \in Realizations :
              RatSumOver([s \in DOMAIN res |-> res[s][r]], DOMAIN res)
                 = RatInt(cmp_qnt[r])

\* two blocks of unequal explicit weights that end in different damage
\* states in one realization, and a damage state reported with quantity 0
\* in a realization where no block is in it
C7_Witness ==
    /\ pc = "done"
    /\ attribute_str = <<1, 2>>
    /\ \E r \in Realizations : ds_sample[1][r] # ds_sample[2][r]
    /\ \E s \in DOMAIN res : \E r \in Realizations : res[s][r] = RatZero
    /\ \E r \in Realizations : cmp_qnt[r] = 2

\* the demand sample holds no column for the demand the PG requires
DemandMissing ==
    IF EDP_req[3] = "0"
    THEN \A c \in demand_columns : ~(c[1] = EDP_req[1] /\ c[2] = EDP_req[2])
    ELSE EDP_req \notin demand_columns

DemandLookedUp == pc \in {"evaluate", "quantities", "done", "raised"}

\* C10: when the demand sample lacks the demand required by a performance
\* group (directional or not), calculate reports a warning, leaves the PG
\* out of the damage assignment and goes on without raising.
C10_MissingDemandIsNotFatal ==
    (DemandLookedUp /\ DemandMissing) =>
        /\ error = NoError
        /\ log = <<"WARNING: Cannot find demand data">>
        /\ ds_sample = None

----------------------------------------------------------------------------
(* DamageModel.calculate: the damage process                               *)
(*                                                                         *)
(* Columns of the damage sample are <<cmp, loc, dir, ds>>; ds is the       *)
(* integer whose decimal string labels the column.  A task is a record     *)
(*   [name |-> <<prefix, source_cmp>>, events |-> a sequence of            *)
(*      [source_event |-> <<"DS" | "LS", id>>,                             *)
(*       target_infos |-> a sequence of <<target_cmp, "DS"|"LS"|"NA", id>>]] *)
(* which is the parsed form of "prefix_source": {"DS1": "target_DS1"}.     *)

\* asset.cmp_sample.columns: two global components and one component
\* with a performance group on each of two floors
ProcPGs == {<<"excessive.coll.DEM", "0", "1">>, <<"collapse", "0", "1">>,
            <<"B1", "1", "1">>, <<"B1", "2", "1">>}

\* the same with the components that support the irreparable damage
\* calculation: excessiveRID on a floor and the global irreparable
RIDPGs == ProcPGs \cup {<<"excessiveRID", "1", "1">>, <<"irreparable", "0", "1">>}

\* the damage states the fragility of a component can yield; that of
\* irreparable is a placeholder that never triggers damage
DamageStates(cmp) ==
    IF cmp = "B1" THEN 0..2 ELSE IF cmp = "irreparable" THEN {0} ELSE 0..1

\* ds_sample of every PG (one block each), as _evaluate_damage_state
\* can return it
DsSamplesOf(PGs) ==
    {[p \in PGs |-> [b \in {1} |-> f[p]]] :
        f \in {g \in [PGs -> [Realizations -> 0..2]] :
                 \A p \in PGs : \A r \in Realizations :
                    g[p][r] \in DamageStates(p[1])}}

DsSamples == DsSamplesOf(ProcPGs)

\* asset.cmp_sample: a different quantity on each floor
CmpSamplesOf(PGs) ==
    {[p \in PGs |-> [r \in Realizations |->
        IF p[1] = "B1" /\ p[2] = "2" THEN 2 ELSE 1]]}

CmpSamples == CmpSamplesOf(ProcPGs)

\* pd.concat(qnt_samples, axis=1, keys=cmp_sample.columns)
concat_qnt_samples(ds_smp, cmp_smp) ==
    LET per == [p \in DOMAIN cmp_smp |->
                  prepare_dmg_quantities(ds_smp[p], cmp_smp[p], get_attribute(None))]
        cols == UNION {{<<p[1], p[2], p[3], ds>> : ds \in DOMAIN per[p]} :
                         p \in DOMAIN cmp_smp}
    IN [c \in cols |-> per[<<c[1], c[2], c[3]>>][c[4]]]

\* source_cmp_df.groupby(level=[2]).max()[ds_target] > 0.0: the
\* realizations where some location and direction of the source holds a
\* positive quantity in the damage state (max skips NaN; NaN > 0 is False)
source_mask_of(source_cmp_df, ds_target) ==
    {r \in Realizations :
        \E c \in DOMAIN source_cmp_df :
            /\ c[4] = ds_target
            /\ source_cmp_df[c][r] # NaN
            /\ RatPos(source_cmp_df[c][r])}

target_cmps_incl_source(target_cmp, cmp_list, source_cmp) ==
    IF target_cmp = "ALL" THEN cmp_list ELSE {target_cmp}

\* ALL means all, but the source component
target_cmps(target_cmp, cmp_list, source_cmp) ==
    IF target_cmp = "ALL" THEN cmp_list \ {source_cmp} ELSE {target_cmp}

trigger_ds_adding(qnt, mask, targets, ds_i, cmp_smp) ==
    LET PGs == {p \in DOMAIN cmp_smp : p[1] \in targets}
        ds_cols == {<<p[1], p[2], p[3], ds_i>> : p \in PGs}
    IN [c \in (DOMAIN qnt) \cup ds_cols |->
          IF c \in ds_cols
          THEN [r \in Realizations |->
                  IF r \in mask
                  THEN RatInt(cmp_smp[<<c[1], c[2], c[3]>>][r])
                  ELSE IF c \in DOMAIN qnt THEN qnt[c][r] ELSE RatZero]
          ELSE qnt[c]]

\* target event DS<ds_i>: zero the targets in the masked realizations, add
\* the DS column of every PG of every target when missing, and put the
\* component quantity there in the masked realizations
trigger_ds(qnt, mask, targets, ds_i, cmp_smp) ==
    LET zeroed == [c \in DOMAIN qnt |->
                     IF c[1] \in targets
                     THEN [r \in Realizations |->
                             IF r \in mask THEN RatZero ELSE qnt[c][r]]
                     ELSE qnt[c]]
        PGs == {p \in DOMAIN cmp_smp : p[1] \in targets}
        ds_cols == {<<p[1], p[2], p[3], ds_i>> : p \in PGs}
    IN [c \in (DOMAIN qnt) \cup ds_cols |->
          IF c \in ds_cols
          THEN [r \in Realizations |->
                  IF r \in mask
                  THEN RatInt(cmp_smp[<<c[1], c[2], c[3]>>][r])
                  ELSE IF c \in DOMAIN qnt THEN zeroed[c][r] ELSE RatZero]
          ELSE zeroed[c]]

clear_damage_zero(qnt, mask, targets) ==
    [c \in DOMAIN qnt |->
        IF c[1] \in targets
        THEN [r \in Realizations |-> IF r \in mask THEN RatZero ELSE qnt[c][r]]
        ELSE qnt[c]]

\* target event NA: qnt_sample.loc[source_mask, target_cmp] = np.nan
clear_damage(qnt, mask, targets) ==
    [c \in DOMAIN qnt |->
        IF c[1] \in targets
        THEN [r \in Realizations |-> IF r \in mask THEN NaN ELSE qnt[c][r]]
        ELSE qnt[c]]

RECURSIVE perform_targets(_, _, _, _, _, _)
\* "for target_info in target_infos"; mask is [bound, rows]: source_mask
\* is an unbound local until a DS source event has assigned it
perform_targets(qnt, mask, target_infos, cmp_list, source_cmp, cmp_smp) ==
    IF target_infos = <<>>
    THEN [sample |-> qnt, error |-> NoError]
    ELSE LET info == Head(target_infos)
             targets == target_cmps(info[1], cmp_list, source_cmp)
             rest == Tail(target_infos)
         IN IF info[2] = "LS"
            THEN perform_targets(qnt, mask, rest, cmp_list, source_cmp, cmp_smp)
            ELSE IF info[2] \notin {"DS", "NA"}
            THEN [sample |-> qnt, error |-> "ValueError"]
            ELSE IF ~mask.bound
            THEN [sample |-> qnt, error |-> "UnboundLocalError"]
            ELSE perform_targets(
                    IF info[2] = "DS"
                    THEN trigger_ds(qnt, mask.rows, targets, info[3], cmp_smp)
                    ELSE clear_damage(qnt, mask.rows, targets),
                    mask, rest, cmp_list, source_cmp, cmp_smp)

RECURSIVE perform_events(_, _, _, _, _, _, _)
\* "for source_event, target_infos in task[1].items()"
perform_events(qnt, mask, events, source_cmp_df, cmp_list, source_cmp, cmp_smp) ==
    IF events = <<>>
    THEN [sample |-> qnt, error |-> NoError]
    ELSE LET ev == Head(events)
             kind == ev.source_event[1]
             ds_target == ev.source_event[2]
             rest == Tail(events)
         IN IF kind \notin {"LS", "DS"}
            THEN [sample |-> qnt, error |-> "ValueError"]
            ELSE IF kind = "DS" /\ ~\E c \in DOMAIN source_cmp_df : c[4] = ds_target
            THEN \* "continue": the event is not triggered
                 perform_events(qnt, mask, rest, source_cmp_df, cmp_list,
                                source_cmp, cmp_smp)
            ELSE LET new_mask ==
                         IF kind = "DS"
                         THEN [bound |-> TRUE,
                               rows |-> source_mask_of(source_cmp_df, ds_target)]
                         ELSE mask    \* LS source: only ls_i is parsed
                     out == perform_targets(qnt, new_mask, ev.target_infos,
                                            cmp_list, source_cmp, cmp_smp)
                 IN IF out.error # NoError
                    THEN out
                    ELSE perform_events(out.sample, new_mask, rest, source_cmp_df,
                                        cmp_list, source_cmp, cmp_smp)

\* _perform_dmg_task(task, qnt_sample).  source_cmp_df is taken once,
\* before the events; no task below has an event that targets the source
\* component before a later event of the same task reads it.
perform_dmg_task(task, qnt, cmp_smp) ==
    LET cmp_list == {c[1] : c \in DOMAIN qnt}
        source_cmp == task.name[2]           \* task[0].split('_')[1]
        source_cmp_df == [c \in {x \in DOMAIN qnt : x[1] = source_cmp} |-> qnt[c]]
    IN IF source_cmp \notin cmp_list
       THEN [sample |-> qnt, error |-> "ValueError"]
       ELSE perform_events(qnt, [bound |-> FALSE, rows |-> {}], task.events,
                           source_cmp_df, cmp_list, source_cmp, cmp_smp)

Task(prefix, source_cmp, ds, target_info) ==
    [name |-> <<prefix, source_cmp>>,
     events |-> <<[source_event |-> <<"DS", ds>>,
                   target_infos |-> <<target_info>>]>>]

\* damage_processes['FEMA P-58']
FEMA_P58 ==
    <<Task("1", "excessive.coll.DEM", 1, <<"collapse", "DS", 1>>),
      Task("2", "collapse", 1, <<"ALL", "NA", 0>>),
      Task("3", "excessiveRID", 1, <<"irreparable", "DS", 1>>)>>

\* the tasks a damage process is assembled from: those of FEMA P-58, the
\* first of Hazus Earthquake (its source is not a component of the asset)
\* and user-defined ones
Tasks ==
    {FEMA_P58[1], FEMA_P58[2],
     Task("1", "STR", 1, <<"collapse", "DS", 1>>),
     Task("3", "collapse", 1, <<"B1", "DS", 2>>),
     Task("4", "B1", 1, <<"collapse", "DS", 1>>),
     Task("5", "B1", 2, <<"ALL", "DS", 1>>)}

\* dmg_process: None (no task), a mapping with up to MaxTasks keys, in
\* insertion order, or the process of FEMA P-58
DmgProcesses ==
    {p \in UNION {[1..n -> Tasks] : n \in 0..MaxTasks} :
        \A i, j \in DOMAIN p : i # j => p[i].name # p[j].name}
    \cup {FEMA_P58}

task_at_reversed(process, i) == process[Len(process) + 1 - i]

\* the i-th item of dmg_process.items()
task_at(process, i) == process[i]

InitProc ==
    /\ pc = "concat"
    /\ log = <<>>
    /\ error = NoError
    /\ IdleEval
    /\ \/ /\ cmp_sample \in CmpSamples
          /\ ds_samples \in DsSamples
          /\ dmg_process \in DmgProcesses
       \/ /\ cmp_sample \in CmpSamplesOf(RIDPGs)
          /\ ds_samples \in DsSamplesOf(RIDPGs)
          /\ dmg_process = FEMA_P58
    /\ task_i = 0
    /\ qnt_sample = None
    /\ damage_sample = None
    /\ IdleLoss
    /\ IdleAux

\* the damage quantities of the performance groups are concatenated
ConcatQntSamples ==
    /\ pc = "concat"
    /\ qnt_sample' = concat_qnt_samples(ds_samples, cmp_sample)
    /\ task_i' = 1
    /\ pc' = "tasks"
    /\ UNCHANGED <<auxVars, lossVars, log, error, evalVars, cmp_sample, ds_samples, dmg_process,
                   damage_sample>>

\* one iteration of "for task in dmg_process.items()"
PerformDmgTask ==
    /\ pc = "tasks"
    /\ task_i <= Len(dmg_process)
    /\ LET out == perform_dmg_task(task_at(dmg_process, task_i), qnt_sample,
                                   cmp_sample)
       IN /\ qnt_sample' = out.sample
          /\ error' = out.error
          /\ IF out.error = NoError
             THEN /\ task_i' = task_i + 1
                  /\ pc' = "tasks"
             ELSE /\ task_i' = task_i
                  /\ pc' = "raised"
    /\ UNCHANGED <<auxVars, lossVars, log, evalVars, cmp_sample, ds_samples, dmg_process,
                   damage_sample>>

\* self._sample = qnt_sample
StoreSample ==
    /\ pc = "tasks"
    /\ task_i > Len(dmg_process)
    /\ damage_sample' = qnt_sample
    /\ pc' = "done"
    /\ UNCHANGED <<auxVars, lossVars, log, error, evalVars, cmp_sample, ds_samples, dmg_process,
                   task_i, qnt_sample>>

\* the damage samples load_data reads from a file: damaged quantities by
\* component, location, direction and damage state
LoadedDamageSamples ==
    {[c \in {<<"B1", "1", "1", 2>>, <<"B1", "2", "1", 1>>} |->
         [r \in Realizations |-> RatInt(r)]]}

\* DamageModel.load_sample, called before DamageModel.calculate, before
\* LossModel.calculate reads the damage sample, or after either has
\* returned: self._sample = load_data(filepath)
LoadDamageSample ==
    /\ pc \in {"concat", "eco_qnt", "done"}
    /\ damage_sample' \in LoadedDamageSamples
    /\ pc' = IF pc = "done" THEN "loaded" ELSE pc
    /\ UNCHANGED <<auxVars, lossVars, log, error, evalVars, cmp_sample, ds_samples,
                   dmg_process, task_i, qnt_sample>>

Next ==
    \/ ConcatQntSamples
    \/ PerformDmgTask
    \/ StoreSample
    \/ LoadDamageSample

Spec == InitProc /\ [][Next]_vars

----------------------------------------------------------------------------
(* Properties of the damage process *)

Col(p, ds) == <<p[1], p[2], p[3], ds>>
PGOf(c) == <<c[1], c[2], c[3]>>

\* the damage sample before any task
InitialSample == concat_qnt_samples(ds_samples, cmp_sample)

RECURSIVE ApplyInOrder(_, _, _)
\* the tasks from position i on, each applied once to the result of the
\* tasks before it
ApplyInOrder(process, i, qnt) ==
    IF i > Len(process) THEN qnt
    ELSE ApplyInOrder(process, i + 1,
                      perform_dmg_task(process[i], qnt, cmp_sample).sample)

\* realization r has the PG's component in damage state ds initially
InitiallyIn(p, ds, r) == ds_samples[p][1][r] = ds

PG_excessive == <<"excessive.coll.DEM", "0", "1">>
PG_collapse == <<"collapse", "0", "1">>
PG_B1_1 == <<"B1", "1", "1">>
PG_B1_2 == <<"B1", "2", "1">>

\* every damaged quantity of the component is undefined in realization r
Cleared(sample, cmp, r) ==
    \A c \in DOMAIN sample : c[1] = cmp => sample[c][r] = NaN

\* C2: calculate applies the tasks of a damage process once each, in the
\* order of the mapping, each on the sample left by the tasks before it,
\* and never goes back to an earlier task: under FEMA P-58 excessive
\* demand forces collapse and collapse then clears the other components
\* of that realization, while under these two tasks alone in the opposite
\* order the forced collapse clears nothing.
C2_TasksAppliedOnceInOrder ==
    pc = "done" =>
        /\ damage_sample = ApplyInOrder(dmg_process, 1, InitialSample)
        /\ dmg_process = FEMA_P58 =>
              \A r \in Realizations : InitiallyIn(PG_excessive, 1, r) =>
                  /\ damage_sample[Col(PG_collapse, 1)][r] = RatInt(1)
                  /\ Cleared(damage_sample, "B1", r)
                  /\ Cleared(damage_sample, "excessive.coll.DEM", r)
        /\ dmg_process = <<FEMA_P58[2], FEMA_P58[1]>> =>
              \A r \in Realizations :
                  (InitiallyIn(PG_excessive, 1, r) /\ InitiallyIn(PG_collapse, 0, r)) =>
                  /\ damage_sample[Col(PG_collapse, 1)][r] = RatInt(1)
                  /\ \A c \in DOMAIN InitialSample :
                        c[1] = "B1" => damage_sample[c][r] = InitialSample[c][r]

C2_Witness ==
    /\ pc = "done"
    /\ dmg_process = <<FEMA_P58[2], FEMA_P58[1]>>
    /\ InitiallyIn(PG_excessive, 1, 1)
    /\ InitiallyIn(PG_collapse, 0, 1)
    /\ InitiallyIn(PG_collapse, 1, 2)
    /\ InitiallyIn(PG_B1_1, 2, 1)
    /\ damage_sample[Col(PG_collapse, 1)][1] = RatInt(1)
    /\ damage_sample[Col(PG_B1_1, 2)][1] = RatInt(1)
    /\ Cleared(damage_sample, "B1", 2)

\* a task has just been applied without an error
TaskStep == pc = "tasks" /\ pc' = "tasks" /\ task_i' = task_i + 1

\* the rule of the task being applied: source component, source damage
\* state, target component, target event and target damage state
RuleSource == dmg_process[task_i].name[2]
RuleDS == dmg_process[task_i].events[1].source_event[2]
RuleTarget == dmg_process[task_i].events[1].target_infos[1][1]
RuleEvent == dmg_process[task_i].events[1].target_infos[1][2]
RuleTargetDS == dmg_process[task_i].events[1].target_infos[1][3]

\* the source component has a positive quantity in the source damage
\* state at some location and direction in realization r
SourceHolds(r) ==
    \E c \in DOMAIN qnt_sample :
        /\ c[1] = RuleSource
        /\ c[4] = RuleDS
        /\ qnt_sample[c][r] # NaN
        /\ qnt_sample[c][r].n > 0

\* C3: for a rule DS<k> -> <component>_DS<m>, in every realization where
\* the source holds a positive quantity in DS k, after the task every PG
\* of the target holds its full component quantity in DS m (a column
\* that is there afterwards even if it was not before) and 0 in every
\* other damage state.
C3_TargetForcedIntoDamageState ==
    [][(TaskStep /\ RuleEvent = "DS" /\ RuleTarget # "ALL") =>
          \A r \in Realizations : SourceHolds(r) =>
              \A p \in DOMAIN cmp_sample : p[1] = RuleTarget =>
                  /\ Col(p, RuleTargetDS) \in DOMAIN qnt_sample'
                  /\ qnt_sample'[Col(p, RuleTargetDS)][r] = RatInt(cmp_sample[p][r])
                  /\ \A c \in DOMAIN qnt_sample' :
                        (PGOf(c) = p /\ c[4] # RuleTargetDS) =>
                            qnt_sample'[c][r] = RatZero]_vars

\* collapse DS1 -> B1_DS2 has been applied; B1 was in DS1 on the first
\* floor and never in DS2 on the second floor
C3_Witness ==
    /\ pc = "tasks"
    /\ task_i = 2
    /\ dmg_process[1] = Task("3", "collapse", 1, <<"B1", "DS", 2>>)
    /\ InitiallyIn(PG_collapse, 1, 1)
    /\ InitiallyIn(PG_B1_1, 1, 1)
    /\ \A r \in Realizations : ~InitiallyIn(PG_B1_2, 2, r)
    /\ qnt_sample[Col(PG_B1_2, 2)][1] = RatInt(2)
    /\ qnt_sample[Col(PG_B1_1, 2)][1] = RatInt(1)
    /\ qnt_sample[Col(PG_B1_1, 1)][1] = RatZero

\* C4: a task changes damaged quantities only in the realizations where
\* the source condition holds: elsewhere every entry that was there is
\* unchanged, and when the source damage state occurs in no realization
\* the whole damage sample is unchanged.
C4_OnlyTriggeredRealizationsChange ==
    [][TaskStep =>
          /\ \A r \in Realizations : ~SourceHolds(r) =>
                \A c \in DOMAIN qnt_sample :
                    /\ c \in DOMAIN qnt_sample'
                    /\ qnt_sample'[c][r] = qnt_sample[c][r]
          /\ (\A r \in Realizations : ~SourceHolds(r)) =>
                qnt_sample' = qnt_sample]_vars

\* the components a rule's target names, ALL standing for every
\* component of the sample but the source
RuleTargets ==
    IF RuleTarget = "ALL"
    THEN {c[1] : c \in DOMAIN qnt_sample} \ {RuleSource}
    ELSE {RuleTarget}

\* C5: an ALL target is every component of the damage sample except the
\* source component, whose own damaged quantities the task leaves alone.
C5_AllExcludesSource ==
    [][(TaskStep /\ RuleTarget = "ALL") =>
          /\ \A c \in DOMAIN qnt_sample' : c[1] = RuleSource =>
                /\ c \in DOMAIN qnt_sample
                /\ qnt_sample'[c] = qnt_sample[c]
          /\ \A r \in Realizations : SourceHolds(r) =>
                \A cmp \in {c[1] : c \in DOMAIN qnt_sample} \ {RuleSource} :
                    IF RuleEvent = "NA"
                    THEN Cleared(qnt_sample', cmp, r)
                    ELSE \A p \in DOMAIN cmp_sample : p[1] = cmp =>
                            qnt_sample'[Col(p, RuleTargetDS)][r]
                                = RatInt(cmp_sample[p][r])]_vars

\* 2_collapse: DS1 -> ALL_NA has been applied to a collapsed realization
C5_Witness ==
    /\ pc = "tasks"
    /\ task_i = 2
    /\ dmg_process[1] = FEMA_P58[2]
    /\ InitiallyIn(PG_collapse, 1, 1)
    /\ qnt_sample[Col(PG_collapse, 1)][1] = RatInt(1)
    /\ Cleared(qnt_sample, "B1", 1)
    /\ Cleared(qnt_sample, "excessive.coll.DEM", 1)

\* C6: for a rule whose target event is NA, in every realization where
\* the source condition holds every damaged quantity of the target
\* components, in every damage state and PG, is NaN after the task.
C6_NATargetClearsQuantities ==
    [][(TaskStep /\ RuleEvent = "NA") =>
          \A r \in Realizations : SourceHolds(r) =>
              \A c \in DOMAIN qnt_sample' :
                  c[1] \in RuleTargets => qnt_sample'[c][r] = NaN]_vars

\* the first two tasks of FEMA P-58 have been applied: the collapse forced
\* by task 1 in the second realization has cleared both floors of B1 there
C6_Witness ==
    /\ pc = "tasks"
    /\ task_i = 3
    /\ dmg_process = FEMA_P58
    /\ InitiallyIn(PG_excessive, 1, 2)
    /\ InitiallyIn(PG_collapse, 0, 2)
    /\ InitiallyIn(PG_B1_1, 1, 2)
    /\ InitiallyIn(PG_B1_2, 2, 2)
    /\ qnt_sample[Col(PG_B1_1, 1)][2] = NaN
    /\ qnt_sample[Col(PG_B1_2, 2)][2] = NaN
    /\ qnt_sample[Col(PG_B1_2, 2)][1] # NaN

----------------------------------------------------------------------------
(* BldgRepairModel._generate_DV_sample.                                    *)
(*                                                                         *)
(* The loss map and the loss parameters are fixed: every consequence has   *)
(* a constant median (Theta_0 is a number) and no distribution Family, so  *)
(* _create_DV_RVs returns None and std_sample is None.  Columns of the     *)
(* consequence sample are <<dv, loss, dmg, ds, loc, dir>>.                 *)

\* str(k) for a damage state id
str(k) == <<"0", "1", "2", "3", "4">>[k + 1]

\* loss_map: Driver and Consequence by row number
loss_map ==
    (0 :> [Driver |-> <<"DMG", "collapse">>, Consequence |-> "replacement"]) @@
    (1 :> [Driver |-> <<"DMG", "B1">>, Consequence |-> "B1"])

DV_types == {"COST", "TIME"}

\* the DS columns of loss_params
LossDS == {1, 2}

\* loss_params.loc[(name, DV type), (DS<k>, 'Theta_0')]
theta_0(name, DV_type, k) ==
    IF name = "replacement"
    THEN IF k = 1 THEN RatInt(IF DV_type = "COST" THEN 10 ELSE 5) ELSE NaN
    ELSE IF name = "B1"
    THEN RatInt(IF DV_type = "COST" THEN k + 1 ELSE k)
    ELSE NaN

\* (name, DV type) in loss_params.index
in_loss_params(name, DV_type) == name \in {"replacement", "B1"}

\* prep_constant_median_DV(theta_0)(quantity)
constant_median_DV(median, quantity) == median

\* a quantity with NaN read as 0, as sum(skipna) and fillna(0) do
fillna(x) == IF x = NaN THEN RatZero ELSE x

\* the damage sample calculate leaves, keeping only the successful runs
RECURSIVE damage_after(_, _, _, _)
damage_after(process, i, qnt, cmp_smp) ==
    IF i > Len(process) THEN qnt
    ELSE damage_after(process, i + 1,
                      perform_dmg_task(task_at(process, i), qnt, cmp_smp).sample,
                      cmp_smp)

\* the group a damage column is pooled into
eco_key(c, eco) ==
    IF eco.AcrossFloors
    THEN IF eco.AcrossDamageStates THEN <<c[1]>> ELSE <<c[1], c[4]>>
    ELSE IF eco.AcrossDamageStates THEN <<c[1], c[2]>> ELSE <<c[1], c[2], c[4]>>

\* dmg_quantities.groupby(level=..., axis=1).sum()
pool_quantities(dmg_quantities, eco) ==
    [k \in {eco_key(c, eco) : c \in DOMAIN dmg_quantities} |->
        [r \in Realizations |->
            RatSumOver([c \in DOMAIN dmg_quantities |-> fillna(dmg_quantities[c][r])],
                       {c \in DOMAIN dmg_quantities : eco_key(c, eco) = k})]]

\* the median columns _calc_median_consequence builds for one row of the
\* loss map and one DV type: the column key, the damage state whose
\* Theta_0 is used and the eco_qnt column the median is evaluated at
median_columns(id, DV_type, eq, eco) ==
    LET driver_cmp == loss_map[id].Driver[2]
        name == loss_map[id].Consequence
        own == {k \in DOMAIN eq : k[1] = driver_cmp}
        ds_ids == {k \in LossDS : theta_0(name, DV_type, k) # NaN}
    IN IF ~in_loss_params(name, DV_type) \/ own = {}
       THEN {}
       ELSE IF eco.AcrossFloors /\ eco.AcrossDamageStates
       THEN \* eco_qnt.loc[:, driver_cmp] is a Series
            {[key |-> <<id, k>>, ds |-> k, source |-> <<driver_cmp>>] :
                k \in ds_ids}
       ELSE IF eco.AcrossFloors
       THEN \* avail_ds are the damage states of the driver
            {[key |-> <<id, k>>, ds |-> k, source |-> <<driver_cmp, k>>] :
                k \in {d \in ds_ids : <<driver_cmp, d>> \in own}}
       ELSE IF eco.AcrossDamageStates
       THEN \* eco_qnt.loc[:, driver_cmp] has one column per location
            {[key |-> <<id, e[1], e[2]>>, ds |-> e[1],
              source |-> <<driver_cmp, e[2]>>] :
                e \in ds_ids \X {k[2] : k \in own}}
       ELSE \* columns are (cmp, loc, ds): level 0 of
            \* eco_qnt.loc[:, driver_cmp] holds the locations, and
            \* eco_qnt.loc[:, (driver_cmp, ds_id)] the damage states at the
            \* location whose id is ds_id
            {[key |-> <<id, e[1], str(e[2])>>, ds |-> e[1],
              source |-> <<driver_cmp, str(e[1]), e[2]>>] :
                e \in {x \in ds_ids \X {k[3] : k \in own} :
                         <<driver_cmp, str(x[1]), x[2]>> \in own}}

\* _calc_median_consequence(eco_qnt): DV type -> column -> realization
calc_median_consequence(eq, eco) ==
    LET cols(t) == UNION {median_columns(id, t, eq, eco) : id \in DOMAIN loss_map}
    IN [t \in {u \in DV_types : cols(u) # {}} |->
          [key \in {m.key : m \in cols(t)} |->
              LET m == CHOOSE x \in cols(t) : x.key = key
                  name == loss_map[m.key[1]].Consequence
              IN [r \in Realizations |->
                    constant_median_DV(theta_0(name, t, m.ds), eq[m.source][r])]]]

\* the consequence columns of one DV type: for every component and
\* damage state with a median, the damage columns of that component and
\* damage state, each with the median column it is multiplied by
DV_columns(DV_type, dmg_quantities, meds, eco) ==
    LET M == meds[DV_type]
        pairs == {q \in (DOMAIN M) \X (DOMAIN dmg_quantities) :
                     /\ q[2][1] = loss_map[q[1][1]].Driver[2]
                     /\ q[2][4] = q[1][2]}
    IN {[key |-> <<DV_type, loss_map[q[1][1]].Consequence,
                   q[2][1], q[2][4], q[2][2], q[2][3]>>,
         dmg |-> q[2],
         median |-> IF eco.AcrossFloors THEN <<q[1][1], q[1][2]>>
                    ELSE <<q[1][1], q[1][2], q[2][2]>>] : q \in pairs}

\* the loop over DV types, components, damage states and locations, and
\* pd.concat(res_list).fillna(0)
combine_consequences(dmg_quantities, meds, eco) ==
    LET lookup_fails(t) ==
            \/ t \notin DOMAIN meds                   \* medians[DV_type]
            \/ \E mk \in DOMAIN meds[t] :             \* dmg_quantities.loc[:, (cmp, ds)]
                  ~\E c \in DOMAIN dmg_quantities :
                      c[1] = loss_map[mk[1]].Driver[2] /\ c[4] = mk[2]
            \/ /\ ~eco.AcrossFloors                   \* medians.loc[:, (cmp, ds, loc)]
               /\ \E mk \in DOMAIN meds[t] : \E c \in DOMAIN dmg_quantities :
                     /\ c[1] = loss_map[mk[1]].Driver[2]
                     /\ c[4] = mk[2]
                     /\ <<mk[1], mk[2], c[2]>> \notin DOMAIN meds[t]
        cols == UNION {DV_columns(t, dmg_quantities, meds, eco) : t \in DV_types}
    IN IF \E t \in DV_types : lookup_fails(t)
       THEN [sample |-> None, error |-> "KeyError"]
       ELSE [sample |->
               [key \in {x.key : x \in cols} |->
                   LET x == CHOOSE y \in cols : y.key = key
                   IN [r \in Realizations |->
                         IF dmg_quantities[x.dmg][r] = NaN
                         THEN RatZero
                         ELSE RatMul(dmg_quantities[x.dmg][r],
                                     meds[key[1]][x.median][r])]],
             error |-> NoError]

replacement_override_all_locs(dv) ==
    LET replacement == {c \in DOMAIN dv : c[2] = "replacement"}
        id_replacement ==
            {r \in Realizations :
                RatPos(RatSumOver([c \in replacement |-> dv[c][r]], replacement))}
    IN [c \in DOMAIN dv |->
          [r \in Realizations |->
              IF r \in id_replacement THEN RatZero ELSE dv[c][r]]]

\* DV_sum['replacement'] > 0 flags a realization; there every column whose
\* location is not '0' is set to 0.0
replacement_override(dv) ==
    LET replacement == {c \in DOMAIN dv : c[2] = "replacement"}
        id_replacement ==
            {r \in Realizations :
                RatPos(RatSumOver([c \in replacement |-> dv[c][r]], replacement))}
        locs == {c[5] : c \in DOMAIN dv} \ {"0"}
    IN [c \in DOMAIN dv |->
          [r \in Realizations |->
              IF r \in id_replacement /\ c[5] \in locs
              THEN RatZero ELSE dv[c][r]]]

\* the EconomiesOfScale settings
EcoScales == [AcrossFloors : BOOLEAN, AcrossDamageStates : BOOLEAN]

\* LossModel.calculate starts from the sample of a damage calculation
\* run without a damage process or, on the asset with the components of
\* the irreparable damage calculation, with that of FEMA P-58
InitLoss ==
    /\ pc = "eco_qnt"
    /\ log = <<>>
    /\ error = NoError
    /\ IdleEval
    /\ \/ /\ cmp_sample \in CmpSamples
          /\ ds_samples \in DsSamples
          /\ dmg_process = <<>>
       \/ /\ cmp_sample \in CmpSamplesOf(RIDPGs)
          /\ ds_samples \in DsSamplesOf(RIDPGs)
          /\ dmg_process = FEMA_P58
    /\ task_i = Len(dmg_process) + 1
    /\ qnt_sample = damage_after(dmg_process, 1,
                                 concat_qnt_samples(ds_samples, cmp_sample),
                                 cmp_sample)
    /\ damage_sample = qnt_sample
    /\ eco_scale \in EcoScales
    /\ eco_qnt = None
    /\ medians = None
    /\ DV_sample = None
    /\ loss_sample = None
    /\ IdleAux

\* the quantities for economies of scale
PoolQuantities ==
    /\ pc = "eco_qnt"
    /\ eco_qnt' = pool_quantities(damage_sample, eco_scale)
    /\ pc' = "medians"
    /\ UNCHANGED <<auxVars, log, error, evalVars, procVars, eco_scale, medians,
                   DV_sample, loss_sample>>

CalcMedianConsequence ==
    /\ pc = "medians"
    /\ medians' = calc_median_consequence(eco_qnt, eco_scale)
    /\ pc' = "combine"
    /\ UNCHANGED <<auxVars, log, error, evalVars, procVars, eco_scale, eco_qnt,
                   DV_sample, loss_sample>>

CombineConsequences ==
    /\ pc = "combine"
    /\ LET out == combine_consequences(damage_sample, medians, eco_scale)
       IN /\ DV_sample' = out.sample
          /\ error' = out.error
          /\ pc' = IF out.error = NoError THEN "override" ELSE "raised"
    /\ UNCHANGED <<auxVars, log, evalVars, procVars, eco_scale, eco_qnt, medians,
                   loss_sample>>

ReplacementOverride ==
    /\ pc = "override"
    /\ loss_sample' = replacement_override(DV_sample)
    /\ pc' = "done"
    /\ UNCHANGED <<auxVars, log, error, evalVars, procVars, eco_scale, eco_qnt, medians,
                   DV_sample>>

\* the loss samples load_data reads from a file: consequences by DV type,
\* loss component, damaged component, damage state, location and direction
LoadedLossSamples ==
    {[c \in {<<"COST", "B1", "B1", 1, "1", "1">>} |->
         [r \in Realizations |-> RatInt(1)]]}

\* LossModel.load_sample, called before calculate or after it has
\* returned: self._sample = load_data(filepath)
LoadLossSample ==
    /\ pc \in {"eco_qnt", "done"}
    /\ loss_sample' \in LoadedLossSamples
    /\ pc' = IF pc = "done" THEN "loaded" ELSE pc
    /\ UNCHANGED <<auxVars, log, error, evalVars, procVars, eco_scale, eco_qnt,
                   medians, DV_sample>>

NextLoss ==
    \/ PoolQuantities
    \/ CalcMedianConsequence
    \/ CombineConsequences
    \/ ReplacementOverride
    \/ LoadDamageSample
    \/ LoadLossSample

SpecLoss == InitLoss /\ [][NextLoss]_vars

----------------------------------------------------------------------------
(* Properties of the repair consequences *)

\* the replacement consequence computed for realization r is positive
Flagged(r) ==
    \E c \in DOMAIN DV_sample :
        c[2] = "replacement" /\ DV_sample[c][r].n > 0

\* C8: in every realization flagged for replacement every entry of the
\* stored sample whose location is not '0' is exactly 0, the entries at
\* location '0' keep their computed values, and the realizations that are
\* not flagged keep all their computed values.
C8_ReplacementZeroesLocalConsequences ==
    pc = "done" =>
        /\ DOMAIN loss_sample = DOMAIN DV_sample
        /\ \A c \in DOMAIN loss_sample : \A r \in Realizations :
              loss_sample[c][r] =
                  IF Flagged(r) /\ c[5] # "0" THEN RatZero ELSE DV_sample[c][r]

\* replacement is triggered in the first realization only; a local
\* consequence computed as positive in both is stored as 0 in the first
C8_Witness ==
    /\ pc = "done"
    /\ Flagged(1)
    /\ ~Flagged(2)
    /\ \E c \in DOMAIN loss_sample :
          /\ c[5] # "0"
          /\ DV_sample[c][1].n > 0
          /\ loss_sample[c][1] = RatZero
          /\ loss_sample[c][2].n > 0
    /\ \E c \in DOMAIN loss_sample :
          c[5] = "0" /\ loss_sample[c][1].n > 0

MediansEvaluated == pc \in {"combine", "override", "done", "raised"}

\* the damage states of a row of the loss map for which a median is due:
\* those with a Theta_0, occurring in the damage sample unless damage
\* states are pooled
ExpectedDS(id, t) ==
    {k \in LossDS :
        /\ theta_0(loss_map[id].Consequence, t, k) # NaN
        /\ \/ eco_scale.AcrossDamageStates
           \/ \E c \in DOMAIN damage_sample :
                 c[1] = loss_map[id].Driver[2] /\ c[4] = k}

\* the locations of the driver component at which the quantity pooled for
\* damage state k is taken
MedianLocations(id, k) ==
    {c[2] : c \in {d \in DOMAIN damage_sample :
                     /\ d[1] = loss_map[id].Driver[2]
                     /\ eco_scale.AcrossDamageStates \/ d[4] = k}}

ExpectedMedians(t) ==
    IF eco_scale.AcrossFloors
    THEN UNION {{<<id, k>> : k \in ExpectedDS(id, t)} : id \in DOMAIN loss_map}
    ELSE UNION {UNION {{<<id, k, loc>> : loc \in MedianLocations(id, k)} :
                          k \in ExpectedDS(id, t)} : id \in DOMAIN loss_map}

\* C9: with AcrossFloors=true there is exactly one median per (loss
\* component, damage state) whatever the number of locations, and with
\* AcrossFloors=false one per (loss component, damage state, location),
\* under both settings of AcrossDamageStates.
C9_OneMedianPerGroup ==
    MediansEvaluated =>
        \A t \in DV_types :
            (IF t \in DOMAIN medians THEN DOMAIN medians[t] ELSE {})
                = ExpectedMedians(t)

(***************************************************************************)
(* base.Logger: the warning stack.                                         *)
(* A message is a sequence of lines (the pieces msg.split('\n') yields).   *)
(***************************************************************************)

\* the number of Logger calls that are followed
MaxCalls == 5

\* the messages the callers hand to the Logger
Messages == {<<1>>, <<2>>, <<1, 2>>}

\* the formatted message: every line indented, coloured and ended
format_warning(msg) ==
    <<"\n">> \o [i \in 1..Len(msg) |-> <<"spaces", "RED", msg[i], "RESET_ALL", "\n">>]

\* x is an element of the list
InList(x, list) == \E i \in DOMAIN list : list[i] = x

\* Logger.add_warning without the membership test
add_warning_unchecked(stack, msg) == Append(stack, format_warning(msg))

\* Logger.add_warning: the stack after the call
add_warning(stack, msg) ==
    IF InList(format_warning(msg), stack)
    THEN stack
    ELSE Append(stack, format_warning(msg))

\* Logger.emit_warnings: the messages of the stack given to warnings.warn
emit_warnings(stack, done) ==
    SelectSeq(stack, LAMBDA message : message \notin done)

\* the Logger after construction
InitLogger ==
    /\ pc = "logger"
    /\ log = <<>>
    /\ error = NoError
    /\ IdleEval
    /\ IdleProc
    /\ IdleLoss
    /\ IdleButLogger
    /\ IdleLogger

\* the number of messages passed in so far caps the run
LoggerOpen == Len(requested) < MaxCalls

AddWarning(msg) ==
    /\ pc = "logger"
    /\ LoggerOpen
    /\ warning_stack' = add_warning(warning_stack, msg)
    /\ logger_call' = "add_warning"
    /\ requested' = Append(requested, msg)
    /\ UNCHANGED <<emitted, issued, coreVars, auxButLogger>>

EmitWarnings ==
    /\ pc = "logger"
    /\ issued' = issued \o emit_warnings(warning_stack, emitted)
    /\ emitted' = emitted \cup {warning_stack[i] : i \in DOMAIN warning_stack}
    /\ warning_stack' = <<>>
    /\ logger_call' = "emit_warnings"
    /\ UNCHANGED <<requested, coreVars, auxButLogger>>

Warn(msg) ==
    /\ pc = "logger"
    /\ LoggerOpen
    /\ LET stack == add_warning(warning_stack, msg)
       IN /\ issued' = issued \o emit_warnings(stack, emitted)
          /\ emitted' = emitted \cup {stack[i] : i \in DOMAIN stack}
    /\ warning_stack' = <<>>
    /\ logger_call' = "warn"
    /\ requested' = Append(requested, msg)
    /\ UNCHANGED <<coreVars, auxButLogger>>

NextLogger ==
    \/ \E msg \in Messages : AddWarning(msg)
    \/ EmitWarnings
    \/ \E msg \in Messages : Warn(msg)

SpecLogger == InitLogger /\ [][NextLogger]_vars

(***************************************************************************)
(* Properties of the Logger                                                *)
(***************************************************************************)

\* C12: over the life of a Logger every distinct warning message is handed
\* to warnings.warn at most once, a call of add_warning hands over nothing,
\* and when emit_warnings (or warn) returns the warning stack is empty.
C12_WarningsIssuedOnce ==
    [][ /\ \A i, j \in DOMAIN issued' : issued'[i] = issued'[j] => i = j
        /\ (logger_call' = "add_warning" => issued' = issued)
        /\ (logger_call' \in {"emit_warnings", "warn"} => warning_stack' = <<>>)
      ]_vars

\* one message was passed in before and after an emit_warnings call, twice
\* before it, and was handed to warnings.warn once
C12_Witness ==
    /\ logger_call = "warn"
    /\ requested = <<<<1, 2>>, <<1, 2>>, <<1>>, <<1, 2>>>>
    /\ emitted = {format_warning(<<1, 2>>), format_warning(<<1>>)}
    /\ issued = <<format_warning(<<1, 2>>), format_warning(<<1>>)>>

(***************************************************************************)
(* base.Options: the seed and the random generator.                        *)
(* A generator is the integer state of a full-period congruential          *)
(* generator; np.random.default_rng(seed) derives the state from the seed, *)
(* np.random.default_rng() takes it from the entropy of the system.        *)
(***************************************************************************)

\* the states of a generator
RngModulus == 8

\* the largest Seed of a configuration
MaxSeed == 2

\* the numbers drawn from one generator between two seedings
MaxDraws == 2

\* the Options objects that are followed
OptionsIds == {1, 2}

\* the Seed values of a configuration or of an assignment
Seeds == 1..MaxSeed

\* what the system's entropy can make of an unseeded generator
Entropy == 0..(RngModulus - 1)

\* np.random.default_rng(seed)
default_rng(seed) == (3 * seed + 1) % RngModulus

\* the state of a generator after one draw
rng_advance(state) == (5 * state + 3) % RngModulus

\* the number a generator in this state yields
rng_output(state) == state

\* the first n numbers of a generator that starts in this state
RECURSIVE rng_stream(_, _)
rng_stream(state, n) ==
    IF n = 0 THEN <<>>
    ELSE <<rng_output(state)>> \o rng_stream(rng_advance(state), n - 1)

\* Options.__init__: _rng is created without a seed, _seed is set directly
Options_init(Seed, entropy) ==
    [seed |-> Seed, rng |-> entropy, by |-> "__init__", drawn |-> <<>>]

\* Options.seed (setter)
Options_seed(o, value) ==
    [seed |-> value, rng |-> default_rng(value), by |-> "seed", drawn |-> <<>>]

\* both Options objects after construction
InitOptions ==
    /\ pc = "options"
    /\ log = <<>>
    /\ error = NoError
    /\ IdleEval
    /\ IdleProc
    /\ IdleLoss
    /\ IdleButOptions
    /\ \E Seed \in [OptionsIds -> Seeds] : \E entropy \in [OptionsIds -> Entropy] :
          options = [i \in OptionsIds |-> Options_init(Seed[i], entropy[i])]

\* options.seed = value
SetSeed(i, value) ==
    /\ pc = "options"
    /\ options' = [options EXCEPT ![i] = Options_seed(@, value)]
    /\ UNCHANGED <<coreVars, auxButOptions>>

\* one number is drawn from options.rng
Draw(i) ==
    /\ pc = "options"
    /\ Len(options[i].drawn) < MaxDraws
    /\ options' = [options EXCEPT ![i] =
                      [@ EXCEPT !.rng = rng_advance(@),
                                !.drawn = Append(@, rng_output(options[i].rng))]]
    /\ UNCHANGED <<coreVars, auxButOptions>>

NextOptions ==
    \/ \E i \in OptionsIds : \E value \in Seeds : SetSeed(i, value)
    \/ \E i \in OptionsIds : Draw(i)

SpecOptions == InitOptions /\ [][NextOptions]_vars

(***************************************************************************)
(* Properties of Options                                                   *)
(***************************************************************************)

\* the numbers drawn from two generators agree as far as both have drawn
SameStream(a, b) ==
    \A k \in DOMAIN a \cap DOMAIN b : a[k] = b[k]

\* C13: two Options objects constructed with the same Seed yield the same
\* random numbers, and after an assignment to the seed property the
\* generator is a new one seeded with the assigned value.
C13_SeededGenerators ==
    pc = "options" =>
        /\ \A i, j \in OptionsIds :
              (/\ options[i].by = "__init__"
               /\ options[j].by = "__init__"
               /\ options[i].seed = options[j].seed)
              => SameStream(options[i].drawn, options[j].drawn)
        /\ \A i \in OptionsIds :
              options[i].by = "seed"
              => options[i].drawn =
                    rng_stream(default_rng(options[i].seed), Len(options[i].drawn))

(***************************************************************************)
(* DemandModel.sample and AssetModel.cmp_sample: the cached sample table.  *)
(* A registry sample is the list of the RVs, each with its tag             *)
(* <<prefix, loc>> and its value; a table is the list of its columns.      *)
(***************************************************************************)

\* the calls on one model that are followed
MaxSampleCalls == 4

\* the largest value of a sample
MaxSampleValue == 2

\* the variables (locations) of a model
SampleLocs == {1, 2}

\* the orders in which the marginal parameters list the variables
ParamOrders == {<<1, 2>>, <<2, 1>>}

\* the values one sample draws for the variables
SampleValues == [SampleLocs -> 1..MaxSampleValue]

RECURSIVE sort_index(_)
\* sort_index(axis=1): the columns in increasing order of their labels
sort_index(table) ==
    IF table = <<>> THEN <<>>
    ELSE LET i == CHOOSE k \in DOMAIN table :
                     \A m \in DOMAIN table : table[k].col[2] <= table[m].col[2]
         IN <<table[i]>> \o
            sort_index(SubSeq(table, 1, i - 1) \o SubSeq(table, i + 1, Len(table)))

\* convert_to_MultiIndex(sample, axis=1)[prefix]: the columns under the
\* prefix, without the prefix
under_prefix(table, prefix) ==
    LET kept == SelectSeq(table, LAMBDA c : c.col[1] = prefix)
    IN [k \in DOMAIN kept |-> [col |-> <<kept[k].col[2]>>, values |-> kept[k].values]]

\* the sample property building the table from the registry sample
sample_from_RVs(RVs, prefix) ==
    under_prefix(sort_index([k \in DOMAIN RVs |->
                                 [col |-> RVs[k].tag, values |-> RVs[k].values]]),
                 prefix)

\* _create_RVs and RV_reg.generate_sample: one RV per row of the parameters
generate_RVs(params, prefix, values) ==
    [k \in DOMAIN params |-> [tag |-> <<prefix, params[k]>>, values |-> values[params[k]]]]

\* the tables a file can hold
LoadedTables ==
    {[k \in DOMAIN order |-> [col |-> <<order[k]>>, values |-> values[order[k]]]] :
        order \in ParamOrders, values \in SampleValues}

\* generate_sample without discarding the stored sample
store_after_generate_kept(stored) == stored

\* generate_sample: the stored sample after the call
store_after_generate(stored) == None

\* the model after construction
InitSample ==
    /\ pc = "sample"
    /\ log = <<>>
    /\ error = NoError
    /\ IdleEval
    /\ IdleProc
    /\ IdleLoss
    /\ IdleButSample
    /\ model_kind \in {"EDP", "CMP"}
    /\ marginal_params = None
    /\ _RVs = None
    /\ _sample = None
    /\ returned = None
    /\ last_call = "None"
    /\ last_write = "None"
    /\ n_calls = 0

SampleCall(name) ==
    /\ pc = "sample"
    /\ n_calls < MaxSampleCalls
    /\ n_calls' = n_calls + 1
    /\ last_call' = name
    /\ UNCHANGED <<model_kind, log, evalVars, procVars, lossVars, auxButSample>>

\* load_model / load_cmp_model: the marginal parameters
LoadModel(order) ==
    /\ SampleCall("load_model")
    /\ marginal_params' = order
    /\ UNCHANGED <<pc, error, _RVs, _sample, returned, last_write>>

\* the table the sample property returns and stores
sample_property(stored, RVs, prefix) ==
    IF stored = None THEN sample_from_RVs(RVs, prefix) ELSE stored

\* DemandModel.calibrate_model: it reads the sample property first, which
\* fails on a model without a sample and stores the table built from the
\* registry otherwise; the parameters have one row per column of the
\* sample, in the order of the columns
CalibrateFromSample ==
    /\ SampleCall("calibrate_model")
    /\ model_kind = "EDP"
    /\ IF _sample = None /\ _RVs = None
       THEN /\ error' = "AttributeError"
            /\ pc' = "failed"
            /\ UNCHANGED <<marginal_params, _RVs, _sample, returned, last_write>>
       ELSE LET demand_sample == sample_property(_sample, _RVs, model_kind)
            IN /\ _sample' = demand_sample
               /\ marginal_params' =
                     [k \in DOMAIN demand_sample |-> demand_sample[k].col[1]]
               /\ UNCHANGED <<pc, error, _RVs, returned, last_write>>

\* load_sample / load_cmp_sample
LoadSample(table) ==
    /\ SampleCall("load_sample")
    /\ _sample' = table
    /\ last_write' = "load_sample"
    /\ UNCHANGED <<pc, error, marginal_params, _RVs, returned>>

\* generate_sample / generate_cmp_sample
GenerateSample(values) ==
    /\ SampleCall("generate_sample")
    /\ IF marginal_params = None
       THEN /\ error' = "ValueError"
            /\ pc' = "failed"
            /\ UNCHANGED <<marginal_params, _RVs, _sample, returned, last_write>>
       ELSE /\ _RVs' = generate_RVs(marginal_params, model_kind, values)
            /\ _sample' = store_after_generate(_sample)
            /\ last_write' = "generate_sample"
            /\ UNCHANGED <<pc, error, marginal_params, returned>>

\* a read of the sample / cmp_sample property
ReadSample ==
    /\ SampleCall("sample")
    /\ IF _sample = None
       THEN IF _RVs = None
            THEN /\ error' = "AttributeError"
                 /\ pc' = "failed"
                 /\ UNCHANGED <<marginal_params, _RVs, _sample, returned, last_write>>
            ELSE /\ _sample' = sample_from_RVs(_RVs, model_kind)
                 /\ returned' = sample_from_RVs(_RVs, model_kind)
                 /\ UNCHANGED <<pc, error, marginal_params, _RVs, last_write>>
       ELSE /\ returned' = _sample
            /\ UNCHANGED <<pc, error, marginal_params, _RVs, _sample, last_write>>

NextSample ==
    \/ \E order \in ParamOrders : LoadModel(order)
    \/ \E table \in LoadedTables : LoadSample(table)
    \/ \E values \in SampleValues : GenerateSample(values)
    \/ ReadSample
    \/ CalibrateFromSample

SpecSample == InitSample /\ [][NextSample]_vars

(***************************************************************************)
(* Properties of the sample property                                       *)
(***************************************************************************)

\* a read of the property returns
ReadReturns == pc' = "sample" /\ last_call' = "sample"

\* the table with the generated values of the registry, columns sorted
GeneratedTable ==
    [k \in 1..Cardinality(SampleLocs) |->
        [col |-> <<k>>,
         values |-> (CHOOSE rv \in {_RVs[i] : i \in DOMAIN _RVs} : rv.tag[2] = k).values]]

\* C14: a read of the sample after generate_sample returns the table built
\* from the registry sample generated last, not a table loaded or generated
\* before, and a read that directly follows a read returns the same table.
C14_ReadReturnsLatestSample ==
    [][ ReadReturns =>
          /\ (last_write = "generate_sample" => returned' = GeneratedTable)
          /\ (last_call = "sample" => returned' = returned)
      ]_vars

\* after other calls a sample was generated from parameters that list the
\* variables in reverse order, and the read returned its sorted table
C14_Witness ==
    /\ pc = "sample"
    /\ n_calls = MaxSampleCalls
    /\ last_call = "sample"
    /\ last_write = "generate_sample"
    /\ marginal_params = <<2, 1>>
    /\ _sample = <<[col |-> <<1>>, values |-> 2], [col |-> <<2>>, values |-> 1]>>
    /\ returned = _sample

(***************************************************************************)
(* DL_calculation.run_pelicun: the checks of the configuration and the     *)
(* files of the output directory.                                          *)
(* A configuration records which of the entries run_pelicun looks at are   *)
(* specified; a file is its name without the extension, and the extension. *)
(***************************************************************************)

File(name, ext) == [name |-> name, ext |-> ext]

\* output_files
output_files ==
    << File("DEM_sample", "zip"), File("DEM_stats", "csv"),
       File("CMP_sample", "zip"), File("CMP_stats", "csv"),
       File("DMG_sample", "zip"), File("DMG_stats", "csv"),
       File("DMG_grp", "zip"), File("DMG_grp_stats", "csv"),
       File("DV_repair_sample", "zip"), File("DV_repair_stats", "csv"),
       File("DV_repair_grp", "zip"), File("DV_repair_grp_stats", "csv"),
       File("DV_repair_agg", "zip"), File("DV_repair_agg_stats", "csv"),
       File("DL_summary", "csv"), File("DL_summary_stats", "csv") >>

\* the file each flag of DL/Outputs/Demand writes, in the order of writing
DemandOutputs ==
    << [flag |-> "Sample", file |-> File("DEM_sample", "zip")],
       [flag |-> "Statistics", file |-> File("DEM_stats", "csv")] >>

\* the file each flag of DL/Outputs/Asset writes
AssetOutputs ==
    << [flag |-> "Sample", file |-> File("CMP_sample", "zip")],
       [flag |-> "Statistics", file |-> File("CMP_stats", "csv")] >>

\* the file each flag of DL/Outputs/Damage writes
DamageOutputs ==
    << [flag |-> "Sample", file |-> File("DMG_sample", "zip")],
       [flag |-> "Statistics", file |-> File("DMG_stats", "csv")],
       [flag |-> "GroupedSample", file |-> File("DMG_grp", "zip")],
       [flag |-> "GroupedStatistics", file |-> File("DMG_grp_stats", "csv")] >>

\* the file each flag of DL/Outputs/Loss/Repair writes
RepairOutputs ==
    << [flag |-> "Sample", file |-> File("DV_repair_sample", "zip")],
       [flag |-> "Statistics", file |-> File("DV_repair_stats", "csv")],
       [flag |-> "GroupedSample", file |-> File("DV_repair_grp", "zip")],
       [flag |-> "GroupedStatistics", file |-> File("DV_repair_grp_stats", "csv")],
       [flag |-> "AggregateSample", file |-> File("DV_repair_agg", "zip")],
       [flag |-> "AggregateStatistics", file |-> File("DV_repair_agg_stats", "csv")] >>

\* a DL/Outputs/Format entry that is not specified
unspecified_format == [given |-> FALSE, CSV |-> FALSE, JSON |-> FALSE]

\* full_out_config: per section the flags that are True
full_out_config ==
    [given |-> TRUE,
     Demand |-> {"Sample", "Statistics"},
     Asset |-> {"Sample", "Statistics"},
     Damage |-> {"Sample", "Statistics", "GroupedSample", "GroupedStatistics"},
     Repair |-> {"Sample", "Statistics", "GroupedSample", "GroupedStatistics",
                 "AggregateSample", "AggregateStatistics"},
     Format |-> [given |-> TRUE, CSV |-> TRUE, JSON |-> TRUE]]

\* regional_out_config
regional_out_config ==
    [given |-> TRUE,
     Demand |-> {"Sample"},
     Asset |-> {"Sample"},
     Damage |-> {"GroupedSample", "GroupedStatistics"},
     Repair |-> {"Sample", "Statistics", "GroupedSample",
                 "AggregateSample", "AggregateStatistics"},
     Format |-> [given |-> TRUE, CSV |-> FALSE, JSON |-> TRUE]]

\* a DL/Outputs entry that is not specified
unspecified_out_config ==
    [given |-> FALSE, Demand |-> {}, Asset |-> {}, Damage |-> {}, Repair |-> {},
     Format |-> unspecified_format]

\* a DL/Outputs entry of a config file that names no Format
user_out_config == [regional_out_config EXCEPT !.Format = unspecified_format]

\* the config files: which entries are specified
ConfigFiles ==
    {c \in [DL : BOOLEAN, Asset : BOOLEAN, Demands : BOOLEAN,
            DemandsSampleSize : BOOLEAN, OptionsSampleSize : BOOLEAN,
            length : BOOLEAN, Damage : BOOLEAN, Losses : BOOLEAN,
            Outputs : {unspecified_out_config, user_out_config}] :
        /\ ~c.DL => (~c.Asset /\ ~c.Demands /\ ~c.Damage /\ ~c.Losses
                       /\ ~c.Outputs.given)
        /\ ~c.Demands => ~c.DemandsSampleSize}

\* output_format: not given, or the formats it names
OutputFormats ==
    {[given |-> FALSE, csv |-> FALSE, json |-> FALSE]} \cup
    {[given |-> TRUE, csv |-> c, json |-> j] : c, j \in BOOLEAN}

\* files of an earlier run that the output directory may hold
StaleFiles == {File("DEM_stats", "csv"), File("DMG_sample", "zip"),
               File("DV_repair_grp_stats", "csv")}

\* the calls of run_pelicun: auto_script is 'None', a script that finds no DL
\* configuration ('no_DL') or one that provides it ('DL'); realizations is
\* None (the default of the command line) or a number, and is read only
\* after an auto-population
RunArgs ==
    {a \in [config : ConfigFiles, auto_script : {"None", "no_DL", "DL"},
            realizations : {"None", "100"},
            detailed_results : BOOLEAN, output_format : OutputFormats] :
        /\ a.config.DL => a.auto_script = "None"
        /\ a.auto_script # "DL" => (~a.detailed_results /\ a.realizations = "None")}

\* _remove_existing_files: the directory after the call; the names are
\* looked up in the list the function has just created
remove_existing_files(dir) ==
    LET new_out_files == <<>>
    IN {f \in dir : ~InList(f, new_out_files)}

\* get(d, path): the lookup raises a KeyError to the caller
get_raises_KeyError(specified) == FALSE

\* the DL block auto_populate provides (a script that configures asset,
\* damage and losses), with the entries run_pelicun adds; DL/Demands/
\* SampleSize is set to str(realizations), a non-empty string in any case
auto_populated(cfg, detailed_results) ==
    [cfg EXCEPT !.DL = TRUE, !.Asset = TRUE, !.Demands = TRUE,
                !.DemandsSampleSize = TRUE, !.Damage = TRUE, !.Losses = TRUE,
                !.Outputs = IF detailed_results THEN full_out_config
                            ELSE regional_out_config]

\* the defaults and the override of DL/Outputs
with_output_defaults(cfg, output_format) ==
    LET outputs == IF cfg.Outputs.given THEN cfg.Outputs ELSE full_out_config
        format == IF outputs.Format.given THEN outputs.Format
                  ELSE [given |-> TRUE, CSV |-> TRUE, JSON |-> FALSE]
        final == IF output_format.given
                 THEN [given |-> TRUE, CSV |-> output_format.csv,
                       JSON |-> output_format.json]
                 ELSE format
    IN [cfg EXCEPT !.Outputs = [outputs EXCEPT !.Format = final]]

\* sample_size_str: Options/Sampling/SampleSize, or else DL/Demands/
\* SampleSize, which after an auto-population is str(realizations); "" when
\* neither is specified
sample_size_str(cfg, auto, realizations) ==
    IF cfg.OptionsSampleSize THEN "100"
    ELSE IF ~cfg.DemandsSampleSize THEN ""
    ELSE IF auto THEN realizations ELSE "100"

\* int(sample_size_str) raises a ValueError for the string 'None'
int_raises_ValueError(str_value) == str_value = "None"

\* run_pelicun up to the creation of the Assessment
configure(args, dir) ==
    LET dir0 == remove_existing_files(dir)
        cfg0 == args.config
        stop(cfg, d) == [config |-> cfg, directory |-> d, PAL |-> "None",
                         return_int |-> -1, returned |-> TRUE, error |-> NoError]
    IN IF ~cfg0.DL /\ args.auto_script # "DL"
       THEN stop(cfg0, dir0)
       ELSE
       LET auto == ~cfg0.DL
           cfg1 == IF auto THEN auto_populated(cfg0, args.detailed_results) ELSE cfg0
           dir1 == IF auto THEN dir0 \cup {File("CMP_QNT", "csv")} ELSE dir0
           size == sample_size_str(cfg1, auto, args.realizations)
       IN IF size = ""
          THEN stop(cfg1, dir1)
          ELSE IF int_raises_ValueError(size)
          THEN [config |-> cfg1, directory |-> dir1, PAL |-> "None",
                return_int |-> 0, returned |-> FALSE, error |-> "ValueError"]
          ELSE
          LET cfg2 == with_output_defaults(cfg1, args.output_format)
          IN IF ~cfg2.Asset THEN stop(cfg2, dir1)
             ELSE IF ~cfg2.Demands THEN stop(cfg2, dir1)
             ELSE IF get_raises_KeyError(cfg2.length) THEN stop(cfg2, dir1)
             ELSE [config |-> cfg2, directory |-> dir1, PAL |-> "Assessment",
                   return_int |-> 0, returned |-> FALSE, error |-> NoError]

\* the files a save function writes for the flags that are set
written(outputs, flags) ==
    LET chosen == SelectSeq(outputs, LAMBDA o : o.flag \in flags)
    IN [k \in DOMAIN chosen |-> chosen[k].file]

\* the files of a list
FilesOf(list) == {list[k] : k \in DOMAIN list}

\* filename[:-3] + 'json'
json_name(file) == [file EXCEPT !.ext = "json"]

\* 'DL_summary' in filename
is_summary(file) == file.name \in {"DL_summary", "DL_summary_stats"}

\* _summary: the files it writes, converts and removes
summary_directory(dir, files, format) ==
    LET all == files \o <<File("DL_summary", "csv"), File("DL_summary_stats", "csv")>>
        d1 == dir \cup FilesOf(all)
        d2 == IF format.JSON THEN d1 \cup {json_name(f) : f \in FilesOf(all)} ELSE d1
    IN IF ~format.CSV THEN d2 \ {f \in FilesOf(all) : ~is_summary(f)} ELSE d2

\* the call of run_pelicun
InitRun ==
    /\ pc = "run_pelicun"
    /\ log = <<>>
    /\ error = NoError
    /\ IdleEval
    /\ IdleProc
    /\ IdleLoss
    /\ IdleButOutput
    /\ run_args \in RunArgs
    /\ config = run_args.config
    /\ PAL = "None"
    /\ directory \in {{}} \cup {{f} : f \in StaleFiles}
    /\ out_files = <<>>
    /\ return_int = 0

RunIdle == UNCHANGED <<log, evalVars, procVars, lossVars, auxButOutput, run_args>>

RunUnchanged == RunIdle /\ UNCHANGED error

\* the run returns
Return(value) ==
    /\ pc' = "returned"
    /\ return_int' = value

\* the initial setup: the configuration is checked and the Assessment
\* created; a ValueError of int(sample_size_str) ends the call
Configure ==
    /\ pc = "run_pelicun"
    /\ LET r == configure(run_args, directory)
       IN /\ config' = r.config
          /\ directory' = r.directory
          /\ PAL' = r.PAL
          /\ return_int' = r.return_int
          /\ error' = r.error
          /\ pc' = IF r.error # NoError THEN "raised"
                   ELSE IF r.returned THEN "returned" ELSE "demand"
    /\ out_files' = <<>>
    /\ RunIdle

\* a save function appends its files
Save(outputs, flags) ==
    /\ out_files' = out_files \o written(outputs, flags)
    /\ directory' = directory \cup FilesOf(written(outputs, flags))

\* _demand and _demand_save
DemandSave ==
    /\ pc = "demand"
    /\ pc' = "asset"
    /\ Save(DemandOutputs, config.Outputs.Demand)
    /\ UNCHANGED <<config, PAL, return_int>>
    /\ RunUnchanged

\* _asset and _asset_save
AssetSave ==
    /\ pc = "asset"
    /\ pc' = "damage"
    /\ IF config.Outputs.Asset # {}
       THEN Save(AssetOutputs, config.Outputs.Asset)
       ELSE UNCHANGED <<out_files, directory>>
    /\ UNCHANGED <<config, PAL, return_int>>
    /\ RunUnchanged

\* _damage and _damage_save when DL/Damage is specified, where _damage may
\* raise a ValueError; without DL/Damage only the damage sample is read
DamageSave(raises) ==
    /\ pc = "damage"
    /\ IF ~config.Damage
       THEN /\ pc' = "loss"
            /\ UNCHANGED <<out_files, directory, return_int>>
       ELSE IF raises
       THEN /\ Return(-1)
            /\ UNCHANGED <<out_files, directory>>
       ELSE /\ pc' = "loss"
            /\ Save(DamageOutputs, config.Outputs.Damage)
            /\ UNCHANGED return_int
    /\ UNCHANGED <<config, PAL>>
    /\ RunUnchanged

\* _loss with _loss_save; _loss may raise a ValueError
LossSave(raises) ==
    /\ pc = "loss"
    /\ IF ~config.Losses
       THEN /\ pc' = "summary"
            /\ UNCHANGED <<out_files, directory, return_int>>
       ELSE IF raises
       THEN /\ Return(-1)
            /\ UNCHANGED <<out_files, directory>>
       ELSE /\ pc' = "summary"
            /\ Save(RepairOutputs, config.Outputs.Repair)
            /\ UNCHANGED return_int
    /\ UNCHANGED <<config, PAL>>
    /\ RunUnchanged

\* _summary, and the return of 0
Summary ==
    /\ pc = "summary"
    /\ Return(0)
    /\ directory' = summary_directory(directory, out_files, config.Outputs.Format)
    /\ out_files' = out_files \o
                      <<File("DL_summary", "csv"), File("DL_summary_stats", "csv")>>
    /\ UNCHANGED <<config, PAL>>
    /\ RunUnchanged

NextRun ==
    \/ Configure
    \/ DemandSave
    \/ AssetSave
    \/ \E raises \in BOOLEAN : DamageSave(raises)
    \/ \E raises \in BOOLEAN : LossSave(raises)
    \/ Summary

SpecRun == InitRun /\ [][NextRun]_vars

(***************************************************************************)
(* Properties of run_pelicun                                               *)
(***************************************************************************)

\* the result files the configuration asks for, of the assessments it
\* requests
RequestedFiles ==
    FilesOf(written(DemandOutputs, config.Outputs.Demand))
    \cup FilesOf(written(AssetOutputs, config.Outputs.Asset))
    \cup (IF config.Damage
          THEN FilesOf(written(DamageOutputs, config.Outputs.Damage)) ELSE {})
    \cup (IF config.Losses
          THEN FilesOf(written(RepairOutputs, config.Outputs.Repair)) ELSE {})
    \cup {File("DL_summary", "csv"), File("DL_summary_stats", "csv")}

\* the result files of the directory (CMP_QNT.csv is an input of the run)
ResultFiles == {f \in directory : f.name \in {g.name : g \in FilesOf(output_files)}}

\* C15: when the outputs are requested as JSON and not as CSV and the run
\* returns 0, the output directory holds the .json counterpart of every
\* requested output and of the two summaries and no other .json result, and
\* the only csv or zip results left are DL_summary.csv and
\* DL_summary_stats.csv.
C15_JsonOnlyOutputs ==
    (/\ pc = "returned"
     /\ return_int = 0
     /\ config.Outputs.Format.JSON
     /\ ~config.Outputs.Format.CSV)
    => /\ \A f \in RequestedFiles : json_name(f) \in directory
       /\ \A f \in ResultFiles :
             \/ f.ext = "json" /\ f \in {json_name(r) : r \in RequestedFiles}
             \/ f.ext = "csv" /\ is_summary(f)

\* the configuration, after auto-population, lacks an entry run_pelicun needs
LacksRequired ==
    \/ ~config.DL
    \/ ~config.OptionsSampleSize /\ ~config.DemandsSampleSize
    \/ ~config.Asset
    \/ ~config.Demands
    \/ ~config.length

\* C16: when the configuration lacks the DL block (and auto-population does
\* not provide it), a sample size, DL/Asset, DL/Demands or
\* GeneralInformation/units/length, run_pelicun returns -1 and no Assessment
\* has been created.
C16_IncompleteConfigReturnsEarly ==
    (pc # "run_pelicun" /\ LacksRequired)
    => (pc = "returned" /\ return_int = -1 /\ PAL = "None")

(***************************************************************************)
(* The parsers of location strings: PelicunModel._get_locations and the    *)
(* get_locations of AssetModel.load_cmp_model.                             *)
(* A string is the list of its pieces: digits, '--', ',', the keywords and *)
(* a piece 'x' that is none of them.                                       *)
(***************************************************************************)

\* the pieces of a location string
MaxPieces == 3

\* the stories of the asset
MaxStories == 3

\* the digits of the location strings
LocDigits == {"1", "3"}

\* what a location string is made of
LocPieces == LocDigits \cup {"--", ",", "all", "top", "roof", "x"}

\* the location strings
LocStrings == UNION {[1..n -> LocPieces] : n \in 1..MaxPieces}

\* the string is a decimal number: int(loc_str) succeeds
IsInt(s) == s # <<>> /\ \A i \in DOMAIN s : s[i] \in LocDigits

DigitChars == <<"0", "1", "2", "3", "4", "5", "6", "7", "8", "9">>

\* the value of a digit
DigitValue(c) == (CHOOSE i \in DOMAIN DigitChars : DigitChars[i] = c) - 1

RECURSIVE int(_)
\* int(s) of a decimal number
int(s) ==
    IF Len(s) = 1 THEN DigitValue(s[1])
    ELSE 10 * int(SubSeq(s, 1, Len(s) - 1)) + DigitValue(s[Len(s)])

RECURSIVE str_int(_)
\* str(n), as the list of its digits
str_int(n) ==
    IF n < 10 THEN <<DigitChars[n + 1]>>
    ELSE str_int(n \div 10) \o <<DigitChars[(n % 10) + 1]>>

RECURSIVE split(_, _)
\* s.split(sep)
split(s, sep) ==
    IF \A i \in DOMAIN s : s[i] # sep THEN <<s>>
    ELSE LET i == CHOOSE k \in DOMAIN s :
                     s[k] = sep /\ \A m \in 1..(k - 1) : s[m] # sep
         IN <<SubSeq(s, 1, i - 1)>> \o split(SubSeq(s, i + 1, Len(s)), sep)

\* np.arange(low, high + 1).astype(str)
arange_str(low, high) ==
    IF high < low THEN <<>>
    ELSE [k \in 1..(high - low + 1) |-> str_int(low + k - 1)]

\* a returned array, or the exception raised
Located(locs) == [error |-> NoError, locs |-> locs]

Raised(exception) == [error |-> exception, locs |-> <<>>]

RECURSIVE parse_locations(_, _, _)
\* the body both parsers share; roof is the location 'roof' stands for
parse_locations(s, n_stories, roof) ==
    IF IsInt(s) THEN Located(<<str_int(int(s))>>)
    ELSE IF InList("--", s)
    THEN LET parts == split(s, "--")
         IN IF Len(parts) # 2 THEN Raised("ValueError")
            ELSE LET s_low == parse_locations(parts[1], n_stories, roof)
                     s_high == parse_locations(parts[2], n_stories, roof)
                 IN IF s_low.error # NoError THEN s_low
                    ELSE IF s_high.error # NoError THEN s_high
                    ELSE IF s_low.locs = <<>> \/ s_high.locs = <<>>
                    THEN Raised("IndexError")
                    ELSE Located(arange_str(int(s_low.locs[1]), int(s_high.locs[1])))
    ELSE IF InList(",", s)
    THEN LET items == split(s, ",")
         IN IF \A k \in DOMAIN items : IsInt(items[k])
            THEN Located([k \in DOMAIN items |-> str_int(int(items[k]))])
            ELSE Raised("ValueError")
    ELSE IF s = <<"all">> THEN Located(arange_str(1, n_stories))
    ELSE IF s = <<"top">> THEN Located(<<str_int(n_stories)>>)
    ELSE IF s = <<"roof">> THEN Located(<<str_int(roof)>>)
    ELSE Raised("ValueError")

\* PelicunModel._get_locations
_get_locations(s, n_stories) == parse_locations(s, n_stories, n_stories + 1)

\* get_locations of AssetModel.load_cmp_model
get_locations(s, n_stories) == parse_locations(s, n_stories, n_stories)

\* a location string of an asset
InitLoc ==
    /\ pc = "locations"
    /\ log = <<>>
    /\ error = NoError
    /\ IdleEval
    /\ IdleProc
    /\ IdleLoss
    /\ IdleButLoc
    /\ loc_str \in LocStrings
    /\ stories \in 1..MaxStories
    /\ locations = <<>>

Parsed(result, by) ==
    /\ pc = "locations"
    /\ pc' = by
    /\ error' = result.error
    /\ locations' = result.locs
    /\ UNCHANGED <<log, evalVars, procVars, lossVars, auxButLoc, loc_str, stories>>

GetLocationsPelicunModel == Parsed(_get_locations(loc_str, stories), "_get_locations")

GetLocationsAssetModel == Parsed(get_locations(loc_str, stories), "get_locations")

NextLoc ==
    \/ GetLocationsPelicunModel
    \/ GetLocationsAssetModel

SpecLoc == InitLoc /\ [][NextLoc]_vars

(***************************************************************************)
(* Properties of the location parsers                                      *)
(***************************************************************************)

\* the string is 'a--b' with integers a and b
IsRange(s) ==
    \E i \in DOMAIN s :
        /\ s[i] = "--"
        /\ IsInt(SubSeq(s, 1, i - 1))
        /\ IsInt(SubSeq(s, i + 1, Len(s)))

\* the string is a list of integers separated by commas
IsList(s) ==
    /\ InList(",", s)
    /\ \A k \in DOMAIN split(s, ",") : IsInt(split(s, ",")[k])

\* the numbers of the returned locations
LocNumbers == [k \in DOMAIN locations |-> int(locations[k])]

\* C17: for an asset of S stories the parser returns the location itself for
\* an integer, the inclusive range for 'a--b', the items for a comma list,
\* 1..S for 'all', S for 'top' and S+1 for 'roof', and raises a ValueError
\* for every other string.
C17_LocationStrings ==
    pc \in {"_get_locations", "get_locations"} =>
        IF IsInt(loc_str)
            THEN error = NoError /\ LocNumbers = <<int(loc_str)>>
        ELSE IF IsRange(loc_str)
            THEN LET i == CHOOSE k \in DOMAIN loc_str : loc_str[k] = "--"
                     a == int(SubSeq(loc_str, 1, i - 1))
                     b == int(SubSeq(loc_str, i + 1, Len(loc_str)))
                 IN /\ error = NoError
                    /\ Len(LocNumbers) = Max(b - a + 1, 0)
                    /\ \A k \in DOMAIN LocNumbers : LocNumbers[k] = a + k - 1
        ELSE IF IsList(loc_str)
            THEN /\ error = NoError
                 /\ LocNumbers = [k \in DOMAIN split(loc_str, ",") |->
                                     int(split(loc_str, ",")[k])]
        ELSE IF loc_str = <<"all">>
            THEN error = NoError /\ LocNumbers = [k \in 1..stories |-> k]
        ELSE IF loc_str = <<"top">>
            THEN error = NoError /\ LocNumbers = <<stories>>
        ELSE IF loc_str = <<"roof">>
            THEN error = NoError /\ LocNumbers = <<stories + 1>>
        ELSE error = "ValueError"

(***************************************************************************)
(* DemandModel.calibrate_model: censoring, truncation and the demands kept *)
(* empirical.  A sample is a function from the demands to the list of      *)
(* their values, one per realization; a limit is <<>> (none) or <<v>>.     *)
(***************************************************************************)

\* the realizations of the raw sample
NRaw == 2

\* the largest raw demand value
MaxRaw == 3

\* the demands (types) of the raw sample, in the order of its columns
CalDemands == <<"PFA", "PID">>

\* the raw samples
RawSamples == [FilesOf(CalDemands) -> [1..NRaw -> 1..MaxRaw]]

NoLimit == <<>>

\* one entry of the calibration settings; CensorAt and TruncateAt are <<>>
\* when the key is absent, else <<lower, upper>>
CalSettings ==
    [DistributionFamily : {"empirical", "lognormal"},
     CensorAt : {<<>>, <<NoLimit, <<MaxRaw>>>>},
     TruncateAt : {<<>>, <<<<1>>, NoLimit>>}]

\* the settings without limits
FamilyOnly == {c \in CalSettings : c.CensorAt = <<>> /\ c.TruncateAt = <<>>}

\* the calibration settings: 'ALL' and, optionally, entries by demand type
CalConfigs ==
    {("ALL" :> a) @@ pid @@ pfa :
        a \in CalSettings,
        pid \in {<<>>} \cup {("PID" :> c) : c \in CalSettings},
        pfa \in {<<>>} \cup {("PFA" :> c) : c \in FamilyOnly}}

\* parse_settings: the row of cal_df after one entry of the settings
parse_settings(row, settings) ==
    [Family |-> settings.DistributionFamily,
     CensorLower |-> IF settings.CensorAt = <<>> THEN row.CensorLower
                     ELSE settings.CensorAt[1],
     CensorUpper |-> IF settings.CensorAt = <<>> THEN row.CensorUpper
                     ELSE settings.CensorAt[2],
     TruncateLower |-> IF settings.TruncateAt = <<>> THEN row.TruncateLower
                       ELSE settings.TruncateAt[1],
     TruncateUpper |-> IF settings.TruncateAt = <<>> THEN row.TruncateUpper
                       ELSE settings.TruncateAt[2]]

\* cal_df: 'ALL' first, then the entry of the demand type
cal_df_of(cfg) ==
    LET empty == [Family |-> "nan", CensorLower |-> NoLimit, CensorUpper |-> NoLimit,
                  TruncateLower |-> NoLimit, TruncateUpper |-> NoLimit]
        all == parse_settings(empty, cfg["ALL"])
    IN [d \in FilesOf(CalDemands) |->
           IF d \in DOMAIN cfg THEN parse_settings(all, cfg[d]) ELSE all]

\* get_filter_mask: the realizations within the limits of every demand
get_filter_mask(smp, rows, lower_lims, upper_lims) ==
    {r \in rows :
        /\ \A d \in DOMAIN smp : upper_lims[d] # NoLimit => smp[d][r] < upper_lims[d][1]
        /\ \A d \in DOMAIN smp : lower_lims[d] # NoLimit => smp[d][r] > lower_lims[d][1]}

\* the rows left after censoring and truncation
rows_kept(smp, cal_df) ==
    LET all == 1..NRaw
        censor_mask == get_filter_mask(smp, all,
                           [d \in DOMAIN smp |-> cal_df[d].CensorLower],
                           [d \in DOMAIN smp |-> cal_df[d].CensorUpper])
    IN get_filter_mask(smp, censor_mask,
                       [d \in DOMAIN smp |-> cal_df[d].TruncateLower],
                       [d \in DOMAIN smp |-> cal_df[d].TruncateUpper])

\* the rows empirical_data is taken from
empirical_rows(smp, cal_df) == rows_kept(smp, cal_df)

\* the values of the rows, in the order of the sample
values_of(column, rows) ==
    SelectSeq([r \in 1..NRaw |-> <<r, column[r]>>], LAMBDA x : x[1] \in rows)

\* empirical_edps
empirical_edps(cal_df) == {d \in DOMAIN cal_df : cal_df[d].Family = "empirical"}

\* a raw sample and the calibration settings
InitCal ==
    /\ pc = "calibrate"
    /\ log = <<>>
    /\ error = NoError
    /\ IdleEval
    /\ IdleProc
    /\ IdleLoss
    /\ IdleButCal
    /\ cal_sample \in RawSamples
    /\ cal_config \in CalConfigs
    /\ empirical_data = <<>>
    /\ fitted_edps = {}

\* calibrate_model, up to the call of fit_distribution_to_sample
CalibrateModel ==
    /\ pc = "calibrate"
    /\ pc' = "calibrated"
    /\ LET cal_df == cal_df_of(cal_config)
       IN /\ empirical_data' =
                [d \in empirical_edps(cal_df) |->
                    values_of(cal_sample[d], empirical_rows(cal_sample, cal_df))]
          /\ fitted_edps' = DOMAIN cal_df \ empirical_edps(cal_df)
    /\ UNCHANGED <<log, error, evalVars, procVars, lossVars, auxButCal,
                   cal_sample, cal_config>>

NextCal == CalibrateModel

SpecCal == InitCal /\ [][NextCal]_vars

(***************************************************************************)
(* Properties of the calibration                                           *)
(***************************************************************************)

\* the demand has no censoring or truncation limit of its own
NoOwnLimits(d) ==
    LET row == cal_df_of(cal_config)[d]
    IN /\ row.CensorLower = NoLimit /\ row.CensorUpper = NoLimit
       /\ row.TruncateLower = NoLimit /\ row.TruncateUpper = NoLimit

\* C18: a demand with the 'empirical' family is not fitted, and
\* empirical_data holds every raw realization of it, in the original order,
\* whatever limits are configured for the other demands.
C18_EmpiricalKeptVerbatim ==
    pc = "calibrated" =>
        \A d \in FilesOf(CalDemands) :
            (cal_df_of(cal_config)[d].Family = "empirical" /\ NoOwnLimits(d))
            => /\ d \notin fitted_edps
               /\ d \in DOMAIN empirical_data
               /\ empirical_data[d] = [r \in 1..NRaw |-> <<r, cal_sample[d][r]>>]

(***************************************************************************)
(* DL_calculation._damage: the 'Hazus Earthquake' damage process with the  *)
(* component ids of the asset, handed to DamageModel.calculate.            *)
(* A damage process is the list of its items in the order of the dict.     *)
(***************************************************************************)

\* damage_processes['Hazus Earthquake']
Hazus_Earthquake ==
    <<Task("1", "STR", 5, <<"collapse", "DS", 1>>),
      Task("2", "LF", 5, <<"collapse", "DS", 1>>),
      Task("3", "excessive.coll.DEM", 1, <<"collapse", "DS", 1>>),
      Task("4", "collapse", 1, <<"ALL", "NA", 0>>),
      Task("5", "excessiveRID", 1, <<"irreparable", "DS", 1>>)>>

\* the component types the ids are looked up for, in the order of cmp_map
HazusCmpTypes == <<"STR", "LF", "NSA">>

\* cmp_type + '.' in cmp, for the components of the assets below
HasType(cmp, cmp_type) ==
    \/ cmp = "STR.W1" /\ cmp_type = "STR"
    \/ cmp = "LF.W1" /\ cmp_type = "LF"

\* the performance groups of an asset, with or without an LF component
HazusPGs(with_LF) ==
    {<<"STR.W1", "1", "1">>, <<"collapse", "0", "1">>,
     <<"excessive.coll.DEM", "0", "1">>, <<"excessiveRID", "1", "1">>,
     <<"irreparable", "0", "1">>}
    \cup (IF with_LF THEN {<<"LF.W1", "1", "1">>} ELSE {})

\* the damage states the components of the asset can be found in
HazusDamageStates(cmp) ==
    IF cmp \in {"STR.W1", "LF.W1"} THEN {0, 5}
    ELSE IF cmp \in {"excessive.coll.DEM", "excessiveRID"} THEN {0, 1}
    ELSE {0}

\* ds_sample of every PG (one block each)
HazusDsSamples(PGs) ==
    {[p \in PGs |-> [b \in {1} |-> f[p]]] :
        f \in {g \in [PGs -> [Realizations -> {0, 1, 5}]] :
                 \A p \in PGs : \A r \in Realizations :
                    g[p][r] \in HazusDamageStates(p[1])}}

\* cmp_map: the id of the asset's component of each type, '' when none
cmp_map_of(cmp_list) ==
    [t \in FilesOf(HazusCmpTypes) |->
        IF \E c \in cmp_list : HasType(c, t)
        THEN CHOOSE c \in cmp_list : HasType(c, t)
        ELSE ""]

\* name.replace(cmp_type, cmp_id) for the first type of cmp_map that the
\* name holds and that has an id
replace_type(name, cmp_map) ==
    IF name \in DOMAIN cmp_map /\ cmp_map[name] # "" THEN cmp_map[name] ELSE name

\* d[key] = events: in place when the key exists, else at the end
dict_set(d, key, events) ==
    IF \E i \in DOMAIN d : d[i].name = key
    THEN [i \in DOMAIN d |-> IF d[i].name = key
                             THEN [name |-> key, events |-> events] ELSE d[i]]
    ELSE Append(d, [name |-> key, events |-> events])

\* del d[key]
dict_del(d, key) == SelectSeq(d, LAMBDA item : item.name # key)

\* new_dmg_process[new_source] = action; del new_dmg_process[source_cmp]
dict_move(d, old_key, key, events) == dict_del(dict_set(d, key, events), old_key)

\* the targets of an action with the component ids
new_target_vals(events, cmp_map) ==
    [e \in DOMAIN events |->
        [source_event |-> events[e].source_event,
         target_infos |->
            [k \in DOMAIN events[e].target_infos |->
                <<replace_type(events[e].target_infos[k][1], cmp_map),
                  events[e].target_infos[k][2],
                  events[e].target_infos[k][3]>>]]]

RECURSIVE specify_cmp_ids(_, _, _, _)
\* "for source_cmp, action in dmg_process.items()", from item i on
specify_cmp_ids(process, new_process, cmp_map, i) ==
    IF i > Len(process) THEN new_process
    ELSE LET source_cmp == process[i].name
             new_source == <<source_cmp[1], replace_type(source_cmp[2], cmp_map)>>
             action == new_target_vals(process[i].events, cmp_map)
             moved == IF new_source # source_cmp
                      THEN dict_move(new_process, source_cmp, new_source, action)
                      ELSE dict_set(new_process, source_cmp, action)
         IN specify_cmp_ids(process, moved, cmp_map, i + 1)

\* the asset and its damage states, and the damage process as configured
InitHazus ==
    /\ pc = "damage_process"
    /\ log = <<>>
    /\ error = NoError
    /\ IdleEval
    /\ \E with_LF \in BOOLEAN :
          /\ cmp_sample = [p \in HazusPGs(with_LF) |-> [r \in Realizations |-> 1]]
          /\ ds_samples \in HazusDsSamples(HazusPGs(with_LF))
    /\ dmg_process = Hazus_Earthquake
    /\ task_i = 0
    /\ qnt_sample = None
    /\ damage_sample = None
    /\ IdleLoss
    /\ IdleAux

\* _damage: the component ids are put into the damage process
SpecifyComponentIds ==
    /\ pc = "damage_process"
    /\ dmg_process' = specify_cmp_ids(dmg_process, dmg_process,
                                      cmp_map_of({p[1] : p \in DOMAIN cmp_sample}), 1)
    /\ pc' = "concat"
    /\ UNCHANGED <<auxVars, lossVars, log, error, evalVars, cmp_sample, ds_samples,
                   task_i, qnt_sample, damage_sample>>

NextHazus ==
    \/ SpecifyComponentIds
    \/ ConcatQntSamples
    \/ PerformDmgTask
    \/ StoreSample

SpecHazus == InitHazus /\ [][NextHazus]_vars

(***************************************************************************)
(* Properties of the Hazus Earthquake damage process                       *)
(***************************************************************************)

\* the structural or the lifeline component is in DS5 in realization r
ForcesCollapse(r) ==
    \E p \in DOMAIN ds_samples : p[1] \in {"STR.W1", "LF.W1"} /\ ds_samples[p][1][r] = 5

\* C19: with the component ids in place the damage process lists its tasks
\* in the order 1_STR..., 2_LF..., 3_excessive.coll.DEM, 4_collapse,
\* 5_excessiveRID, so that in a realization where STR or LF is in DS5 the
\* collapse is set before task 4 clears every other component.
C19_HazusTaskOrderPreserved ==
    /\ pc \notin {"idle", "damage_process"} =>
          [i \in DOMAIN dmg_process |-> dmg_process[i].name[1]]
              = <<"1", "2", "3", "4", "5">>
    /\ pc = "done" =>
          \A r \in Realizations :
              ForcesCollapse(r) =>
                  \A c \in DOMAIN damage_sample :
                      IF c[1] = "collapse"
                      THEN c[4] = 1 => damage_sample[c][r] = RatInt(1)
                      ELSE damage_sample[c][r] \in {NaN, RatInt(0)}

(***************************************************************************)
(* Damage processes with a limit-state source: user-defined tasks whose    *)
(* source is component B1 and that hold an "LS<id>" event, run by the      *)
(* damage process engine above.  Every limit state of B1 has one damage    *)
(* state, so that limit state i is exceeded where the damage state is at   *)
(* least i.                                                                *)
(***************************************************************************)

\* one item of the dict of a task: "<kind><id>": "<target>"
Event(kind, id, target_info) ==
    [source_event |-> <<kind, id>>, target_infos |-> <<target_info>>]

\* the dicts of events the tasks are given, in insertion order
LSEvents ==
    {<<Event("LS", 1, <<"collapse", "DS", 1>>)>>,
     <<Event("LS", 2, <<"collapse", "DS", 1>>)>>,
     <<Event("DS", 2, <<"excessive.coll.DEM", "DS", 1>>),
       Event("LS", 1, <<"collapse", "DS", 1>>)>>,
     <<Event("LS", 1, <<"collapse", "DS", 1>>),
       Event("DS", 2, <<"excessive.coll.DEM", "DS", 1>>)>>}

\* a damage process of one task, "1_B1": events
LSProcesses == {<<[name |-> <<"1", "B1">>, events |-> ev]>> : ev \in LSEvents}

InitLS ==
    /\ pc = "concat"
    /\ log = <<>>
    /\ error = NoError
    /\ IdleEval
    /\ cmp_sample \in CmpSamples
    /\ ds_samples \in DsSamples
    /\ dmg_process \in LSProcesses
    /\ task_i = 0
    /\ qnt_sample = None
    /\ damage_sample = None
    /\ IdleLoss
    /\ IdleAux

NextLS ==
    \/ ConcatQntSamples
    \/ PerformDmgTask
    \/ StoreSample

SpecLS == InitLS /\ [][NextLS]_vars

(***************************************************************************)
(* Properties of limit-state sources                                       *)
(***************************************************************************)

\* the limit state of the LS event of the task
SourceLS ==
    LET ev == dmg_process[1].events
        i == CHOOSE k \in DOMAIN ev : ev[k].source_event[1] = "LS"
    IN ev[i].source_event[2]

\* some performance group of B1 exceeded limit state ls in realization r
ExceededLS(ls, r) ==
    \E p \in {PG_B1_1, PG_B1_2} : ds_samples[p][1][r] >= ls

\* the collapse is in damage state 1 with its whole quantity
CollapseTriggered(sample, r) ==
    /\ Col(PG_collapse, 1) \in DOMAIN sample
    /\ sample[Col(PG_collapse, 1)][r] = RatInt(cmp_sample[PG_collapse][r])

\* C20: a task with an LS<id> source event is carried out, and its target
\* (collapse_DS1) is in effect in exactly the realizations where the source
\* component exceeded that limit state (or the collapse had occurred on its
\* own), whatever other source event the task holds.
C20_LimitStateSourceTriggersTargets ==
    /\ error # "UnboundLocalError"
    /\ pc = "done" =>
          \A r \in Realizations :
              CollapseTriggered(damage_sample, r)
                  <=> (ExceededLS(SourceLS, r) \/ InitiallyIn(PG_collapse, 1, r))

(***************************************************************************)
(* DamageModel._create_dmg_RVs over a damage parameter table with          *)
(* undefined limit states and damage functions                             *)
(***************************************************************************)

MaxLS == 3          \* limit state columns of the damage parameter table
MaxPicks == 3       \* multinomial LSDS variables of a performance group
MaxFrgDraws == 1    \* fragility capacities drawn next to a damage function

\* limit_states: the LS columns of the table, in the order of the columns
limit_states(params) == [i \in 1..Len(params) |-> i]

RECURSIVE ds_id_at(_, _)
\* ds_id when the loop over limit_states reaches ls: every limit state
\* that passed the check has gone through assign_lsds
ds_id_at(params, ls) ==
    IF ls = 1 THEN 0
    ELSE IF limit_state_is_defined(params[ls - 1])
    THEN assign_lsds(params[ls - 1].ds_weights, ds_id_at(params, ls - 1))
    ELSE ds_id_at(params, ls - 1)

\* np.nextafter(-np.inf, 1) and np.nextafter(np.inf, -1): numbers below and
\* above every capacity and every demand of the model
lowest_float == 0 - (MaxCapacity + MaxDemand * nondir_multi + 1)
highest_float == MaxCapacity + MaxDemand * nondir_multi + 1

\* np.ones(10000) * theta_0 for a null Theta_0: a NaN capacity, for which
\* "capacity - demand < 0" is False whatever the demand; the sample holds
\* it as a number that no demand exceeds, apart from highest_float
nan_capacity == highest_float + 1

\* the samples of the capacity registry: the almost surely yes/no
\* capacities of a damage function; one draw per fragility function,
\* repeated in every realization; NaN for a limit state without Theta_0
CapacitySamplesOf(params, blocks) ==
    LET rvs == dmg_RV_tags(params, blocks)
        tags == {rv.tag : rv \in rvs}
        ls_i_of(t) == (CHOOSE rv \in rvs : rv.tag = t).ls_i
        drawn == {t \in tags : ls_i_of(t) = -1 /\ params[t[2]].theta_0}
    IN {[t \in tags |-> [r \in Realizations |->
            IF t \in drawn THEN v[t]
            ELSE IF ls_i_of(t) = -1 THEN nan_capacity
            ELSE IF t[2] <= ls_i_of(t) + 1 THEN lowest_float ELSE highest_float]] :
          v \in [drawn -> 1..MaxCapacity]}

\* the samples of the LSDS registry, as assign_lsds set it up
LsdsSamplesOf(params, blocks) ==
    LET tags == {rv.tag : rv \in dmg_RV_tags(params, blocks)}
        outcomes == {v \in [tags -> 0..(MaxDSWeights - 1)] :
                        \A t \in tags : v[t] < Max(params[t[2]].ds_weights, 1)}
    IN {[t \in tags |-> [r \in Realizations |->
                           v[t] + ds_id_at(params, t[2]) + 1]] :
           v \in outcomes}

\* the number of multinomial LSDS variables of a PG
picks_of(params, blocks) ==
    Cardinality({rv \in dmg_RV_tags(params, blocks) :
                    params[rv.tag[2]].ds_weights # 0})

\* the number of capacities drawn from a fragility function of a PG
draws_of(params, blocks) ==
    Cardinality({rv \in dmg_RV_tags(params, blocks) :
                    rv.ls_i = -1 /\ params[rv.tag[2]].theta_0})

\* a limit state column the component leaves empty
UndefinedLS == [theta_0 |-> FALSE, family |-> "None", ds_weights |-> 0]

\* rows of a table with n limit state columns: each is empty or defined
\* with one of the families
TableRows(n, families) ==
    [1..n -> {UndefinedLS} \cup [theta_0 : {TRUE}, family : families,
                                 ds_weights : {0} \cup 2..MaxDSWeights]]

\* the bookkeeping of the quantities of a damage function, done when
\* ls_id is '1': cmp_sample.loc[:, PG] is a Series, so is its copy
\* qnt_sample, and qnt_sample.loc[:, PG] has too many indexers
create_dmg_RVs_error(params) ==
    IF limit_state_is_defined(params[1]) /\ params[1].family = "function"
    THEN "IndexingError" ELSE NoError

\* _generate_dmg_sample for a row of the table
GenerateDmgSampleOf ==
    /\ pc = "generate_of"
    /\ IF create_dmg_RVs_error(frg_params) # NoError
       THEN /\ error' = create_dmg_RVs_error(frg_params)
            /\ pc' = "raised"
            /\ UNCHANGED <<capacity_sample, lsds_sample, capacity_RV_sets>>
       ELSE /\ capacity_sample' \in CapacitySamplesOf(frg_params, Blocks)
            /\ lsds_sample' \in LsdsSamplesOf(frg_params, Blocks)
            /\ capacity_RV_sets' = frg_RV_sets_of(frg_params, Blocks)
            /\ pc' = "demand_type"
            /\ UNCHANGED error
    /\ UNCHANGED <<auxVars, procVars, lossVars, log, frg_params, attribute_str,
                   Blocks, EDP_req, demand_columns, demand, ds_sample,
                   cmp_qnt, res>>

(***************************************************************************)
(* Damage functions: one pass of the loop of calculate for a component     *)
(* with a limit state of Family 'function'                                 *)
(***************************************************************************)

InitFn ==
    /\ pc = "generate_of"
    /\ log = <<>>
    /\ frg_params \in UNION {TableRows(n, {"function", "lognormal"}) :
                                n \in 1..MaxLS}
    /\ \E ls \in DOMAIN frg_params : frg_params[ls].family = "function"
    /\ attribute_str \in {None, <<2>>}
    /\ Blocks = get_attribute(attribute_str)
    /\ picks_of(frg_params, Blocks) <= MaxPicks
    /\ draws_of(frg_params, Blocks) <= MaxFrgDraws
    /\ capacity_sample = None
    /\ lsds_sample = None
    /\ capacity_RV_sets = {}
    /\ EDP_req = None
    /\ demand_columns = {}
    /\ demand = None
    /\ error = NoError
    /\ ds_sample = None
    /\ cmp_qnt = None
    /\ res = None
    /\ IdleProc
    /\ IdleLoss
    /\ IdleAux

NextFn ==
    \/ GenerateDmgSampleOf
    \/ GetRequiredDemandType
    \/ AssembleRequiredDemandData
    \/ EvaluateDamageState
    \/ PrepareDmgQuantities

SpecFn == InitFn /\ [][NextFn]_vars

(***************************************************************************)
(* Properties of the damage function mode                                  *)
(***************************************************************************)

\* the limit states the component defines
DefinedLS == {ls \in DOMAIN frg_params : frg_params[ls].theta_0}

\* the limit state damage block b stands for, among n limit states
BlockLS(b, n) == ((b - 1) % n) + 1

\* the component is in damage function mode: it defines a limit state and
\* every limit state it defines has Family 'function'
DamageFunctionMode ==
    /\ DefinedLS # {}
    /\ \A ls \in DefinedLS : frg_params[ls].family = "function"

\* C21: with Family 'function' the capacities of the component are created
\* (the bookkeeping of its quantities raises no error), every component
\* block is replaced by as many damage blocks as the component has limit
\* states, and in every realization (the demand is finite) damage block j
\* is in the damage state of limit state j: its capacities are exceeded for
\* LS1..LSj and for no higher limit state, so every damage block is damaged
\* whatever the demand.
C21_DamageFunctionBlocks ==
    DamageFunctionMode =>
        /\ error # "IndexingError"
        /\ Evaluated =>
              LET n == Cardinality(DefinedLS)
              IN /\ DOMAIN ds_sample = 1..(Len(block_weights(Blocks)) * n)
                 /\ \A b \in DOMAIN ds_sample : \A r \in Realizations :
                       /\ <<b, BlockLS(b, n)>> \in DOMAIN lsds_sample
                       /\ ds_sample[b][r] = lsds_sample[<<b, BlockLS(b, n)>>][r]
                       /\ ds_sample[b][r] >= 1
                       /\ \A ls \in DefinedLS :
                             (capacity_sample[<<b, ls>>][r] * 10 < demand[r])
                                 <=> ls <= BlockLS(b, n)

(***************************************************************************)
(* BldgRepairModel.aggregate_losses.  The sample has the columns           *)
(* <<dv, loss, dmg, ds, loc, dir>> _generate_DV_sample gives it; its       *)
(* values are numbers (fillna(0) has removed every NaN).                   *)
(***************************************************************************)

MaxLoss == 2        \* consequences are drawn from 0..MaxLoss

\* the columns of the samples that are aggregated: repair cost and time of
\* two components on two floors, or repair costs only
DVColumnSets ==
    {{<<"COST", "B1", "B1", "1", "1", "1">>, <<"COST", "B1", "B1", "1", "2", "1">>,
      <<"TIME", "B1", "B1", "1", "1", "1">>, <<"TIME", "B2", "B2", "1", "1", "1">>,
      <<"TIME", "B1", "B1", "1", "2", "1">>},
     {<<"COST", "B1", "B1", "1", "1", "1">>, <<"COST", "B1", "B1", "1", "2", "1">>}}

DVSamples ==
    UNION {[cols -> [Realizations -> {RatInt(v) : v \in 0..MaxLoss}]] :
              cols \in DVColumnSets}

\* a <= b for two quantities
RatLeq(a, b) == a.n * b.d <= b.n * a.d

\* DataFrame.max(axis=1): the largest of the values f takes on S
RatMaxOver(f, S) == CHOOSE v \in {f[x] : x \in S} : \A x \in S : RatLeq(f[x], v)

\* the sample without grouping: every column is a group of its own
DVG_by_column(sample) ==
    [k \in {<<c[1], c>> : c \in DOMAIN sample} |-> sample[k[2]]]

\* DV.groupby(level=[0, 4], axis=1).sum(): the totals by DV type and location
DVG_of(sample) ==
    [k \in {<<c[1], c[5]>> : c \in DOMAIN sample} |->
        [r \in Realizations |->
            RatSumOver([c \in DOMAIN sample |-> sample[c][r]],
                       {c \in DOMAIN sample : c[1] = k[1] /\ c[5] = k[2]})]]

\* aggregate_losses: DVG['TIME'] raises a KeyError without a TIME column
aggregate_losses(sample) ==
    LET DVG == DVG_of(sample)
        of_type(t) == {k \in DOMAIN DVG : k[1] = t}
    IN IF of_type("COST") = {} \/ of_type("TIME") = {}
       THEN [df_agg |-> None, error |-> "KeyError"]
       ELSE [df_agg |->
               [col \in {"repair_cost", "repair_time-parallel",
                         "repair_time-sequential"} |->
                   [r \in Realizations |->
                       IF col = "repair_cost"
                       THEN RatSumOver([k \in DOMAIN DVG |-> DVG[k][r]], of_type("COST"))
                       ELSE IF col = "repair_time-sequential"
                       THEN RatSumOver([k \in DOMAIN DVG |-> DVG[k][r]], of_type("TIME"))
                       ELSE RatMaxOver([k \in DOMAIN DVG |-> DVG[k][r]], of_type("TIME"))]],
             error |-> NoError]

InitAgg ==
    /\ pc = "aggregate"
    /\ log = <<>>
    /\ error = NoError
    /\ IdleEval
    /\ IdleProc
    /\ IdleLoss
    /\ IdleButAgg
    /\ DV \in DVSamples
    /\ df_agg = None

AggregateLosses ==
    /\ pc = "aggregate"
    /\ LET out == aggregate_losses(DV)
       IN /\ df_agg' = out.df_agg
          /\ error' = out.error
          /\ pc' = IF out.error = NoError THEN "done" ELSE "raised"
    /\ UNCHANGED <<log, evalVars, procVars, lossVars, auxButAgg, DV>>

NextAgg == AggregateLosses

SpecAgg == InitAgg /\ [][NextAgg]_vars

(***************************************************************************)
(* Properties of the aggregated repair consequences                        *)
(***************************************************************************)

\* the columns of a DV type
ColumnsOf(t) == {c \in DOMAIN DV : c[1] = t}

\* the total repair time at a location in realization r
TimeAt(loc, r) ==
    RatSumOver([c \in DOMAIN DV |-> DV[c][r]], {c \in ColumnsOf("TIME") : c[5] = loc})

TimeLocations == {c[5] : c \in ColumnsOf("TIME")}

\* C22: in every realization repair_cost is the sum of all COST entries,
\* repair_time-sequential the sum over the locations of the TIME total of
\* each location and repair_time-parallel the largest of these totals, so
\* that the parallel time is never above the sequential time.
C22_AggregatedLosses ==
    pc = "done" =>
        \A r \in Realizations :
            /\ df_agg["repair_cost"][r]
                  = RatSumOver([c \in DOMAIN DV |-> DV[c][r]], ColumnsOf("COST"))
            /\ df_agg["repair_time-sequential"][r]
                  = RatSumOver([loc \in TimeLocations |-> TimeAt(loc, r)], TimeLocations)
            /\ \E loc \in TimeLocations :
                  df_agg["repair_time-parallel"][r] = TimeAt(loc, r)
            /\ \A loc \in TimeLocations :
                  RatLeq(TimeAt(loc, r), df_agg["repair_time-parallel"][r])
            /\ RatLeq(df_agg["repair_time-parallel"][r],
                      df_agg["repair_time-sequential"][r])

\* two repairs on the first floor and one on the second: the parallel time
\* is the total of the first floor, above every single repair time and below
\* the sequential time
C22_Witness ==
    /\ pc = "done"
    /\ DV[<<"TIME", "B1", "B1", "1", "1", "1">>][1] = RatInt(1)
    /\ DV[<<"TIME", "B2", "B2", "1", "1", "1">>][1] = RatInt(2)
    /\ DV[<<"TIME", "B1", "B1", "1", "2", "1">>][1] = RatInt(2)
    /\ df_agg["repair_time-parallel"][1] = RatInt(3)
    /\ df_agg["repair_time-sequential"][1] = RatInt(5)
    /\ df_agg["repair_cost"][1] = RatInt(MaxLoss)

(***************************************************************************)
(* Properties of the initialization of the output folder                   *)
(***************************************************************************)

\* C23: the initialization of the output folder at the start of run_pelicun
\* removes every file found there whose name is in output_files, leaves
\* every other file in place, and starts the list of new outputs empty.
C23_OutputFolderInitialized ==
    [][Configure =>
          /\ \A f \in directory :
                IF f \in FilesOf(output_files)
                THEN f \notin directory'
                ELSE f \in directory'
          /\ out_files' = <<>>]_vars

(***************************************************************************)
(* DamageModel.load_damage_model followed by DamageModel.calculate, over   *)
(* all performance groups of the asset.  The evaluation of one PG is       *)
(* modelled step by step above; here a PG that is evaluated gets one of    *)
(* the damage state samples the evaluation can return.                     *)
(***************************************************************************)

\* asset.cmp_sample.columns, in their order
LoadPGs == <<<<"A", "1", "1">>, <<"A", "2", "1">>, <<"B", "1", "1">>>>

\* the damage parameter tables read from the data files: a row for every
\* component of the asset, with its Incomplete flag
DamageDBs == [{"A", "B"} -> [Incomplete : {0, 1}]]

\* load_damage_model: the rows kept in self.damage_params and the log
load_damage_model(db, log0) ==
    LET cmp_incomplete_list == {c \in DOMAIN db : db[c].Incomplete = 1}
    IN [damage_params |-> [c \in (DOMAIN db) \ cmp_incomplete_list |-> db[c]],
        log |-> IF cmp_incomplete_list # {}
                THEN Append(log0, "WARNING: Damage model information is incomplete")
                ELSE log0]

\* _generate_dmg_sample(sample_size, PG): _create_dmg_RVs adds no random
\* variable for a component that is not in damage_params.index, and
\* convert_to_MultiIndex raises a ValueError (np.max of an empty list) on
\* the empty capacity sample
generate_dmg_sample_error(params, pg) ==
    IF pg[1] \in DOMAIN params THEN NoError ELSE "ValueError"

\* get_required_demand_type(PG): DP.loc[cmp, ...] raises a KeyError for a
\* component that is not in damage_params
get_required_demand_type_error(params, pg) ==
    IF pg[1] \in DOMAIN params THEN NoError ELSE "KeyError"

\* the first exception of one pass of the loop of calculate
PG_pass_error(params, pg) ==
    IF generate_dmg_sample_error(params, pg) # NoError
    THEN generate_dmg_sample_error(params, pg)
    ELSE get_required_demand_type_error(params, pg)

InitLoad ==
    /\ pc = "load_damage_model"
    /\ log = <<>>
    /\ error = NoError
    /\ IdleEval
    /\ cmp_sample \in [FilesOf(LoadPGs) -> [Realizations -> 1..MaxQnt]]
    /\ ds_samples = <<>>
    /\ dmg_process = <<>>
    /\ task_i = 0
    /\ qnt_sample = None
    /\ damage_sample = None
    /\ IdleLoss
    /\ IdleButLoad
    /\ damage_db \in DamageDBs
    /\ damage_params = None
    /\ PG_i = 0

LoadDamageModel ==
    /\ pc = "load_damage_model"
    /\ LET out == load_damage_model(damage_db, log)
       IN /\ damage_params' = out.damage_params
          /\ log' = out.log
    /\ PG_i' = 1
    /\ pc' = "calculate"
    /\ UNCHANGED <<error, evalVars, procVars, lossVars, auxButLoad, damage_db>>

\* one pass of "for PG_i in self._asmnt.asset.cmp_sample.columns"
CalculatePG ==
    /\ pc = "calculate"
    /\ PG_i <= Len(LoadPGs)
    /\ LET pg == LoadPGs[PG_i]
           err == PG_pass_error(damage_params, pg)
       IN IF err # NoError
          THEN /\ error' = err
               /\ pc' = "raised"
               /\ UNCHANGED <<ds_samples, PG_i>>
          ELSE /\ \E ds \in [Realizations -> 0..1] :
                     ds_samples' = [p \in (DOMAIN ds_samples) \cup {pg} |->
                                       IF p = pg THEN [b \in {1} |-> ds]
                                       ELSE ds_samples[p]]
               /\ PG_i' = PG_i + 1
               /\ UNCHANGED <<error, pc>>
    /\ UNCHANGED <<log, evalVars, cmp_sample, dmg_process, task_i, qnt_sample,
                   damage_sample, lossVars, auxButLoad, damage_db, damage_params>>

\* pd.concat(qnt_samples, keys=cmp_sample.columns) and self._sample
FinishCalculate ==
    /\ pc = "calculate"
    /\ PG_i > Len(LoadPGs)
    /\ qnt_sample' = concat_qnt_samples(
                        ds_samples, [p \in DOMAIN ds_samples |-> cmp_sample[p]])
    /\ damage_sample' = qnt_sample'
    /\ pc' = "done"
    /\ UNCHANGED <<log, error, evalVars, cmp_sample, ds_samples, dmg_process, task_i,
                   lossVars, auxButLoad, loadVars>>

NextLoad ==
    \/ LoadDamageModel
    \/ CalculatePG
    \/ FinishCalculate

SpecLoad == InitLoad /\ [][NextLoad]_vars

(***************************************************************************)
(* Properties of incomplete damage model information                       *)
(***************************************************************************)

IncompleteCmps == {c \in DOMAIN damage_db : damage_db[c].Incomplete = 1}

\* C24: the components flagged Incomplete are dropped from the damage
\* parameters with a warning, the calculation that follows raises nothing,
\* and its result holds the remaining components only.
C24_IncompleteComponentsRemoved ==
    /\ pc # "load_damage_model" =>
          /\ DOMAIN damage_params = (DOMAIN damage_db) \ IncompleteCmps
          /\ IncompleteCmps # {} => Len(log) = 1
    /\ error = NoError
    /\ pc = "done" =>
          {c[1] : c \in DOMAIN damage_sample} = (DOMAIN damage_db) \ IncompleteCmps

(***************************************************************************)
(* _generate_dmg_sample over the rows of a damage parameter table: any     *)
(* of the limit states may be undefined for the component                  *)
(***************************************************************************)

MaxTableRVs == 4    \* capacity variables of a row of the table

InitIds ==
    /\ pc = "generate_of"
    /\ log = <<>>
    /\ frg_params \in UNION {TableRows(n, {family}) :
                                <<n, family>> \in (1..MaxLS) \X {"lognormal", "function"}}
    /\ attribute_str \in {None, <<2>>}
    /\ Blocks = get_attribute(attribute_str)
    /\ \E ls \in DOMAIN frg_params : frg_params[ls].theta_0
    /\ Cardinality(dmg_RV_tags(frg_params, Blocks)) <= MaxTableRVs
    /\ capacity_sample = None
    /\ lsds_sample = None
    /\ capacity_RV_sets = {}
    /\ EDP_req = None
    /\ demand_columns = {}
    /\ demand = None
    /\ error = NoError
    /\ ds_sample = None
    /\ cmp_qnt = None
    /\ res = None
    /\ IdleProc
    /\ IdleLoss
    /\ IdleAux

NextIds == GenerateDmgSampleOf

SpecIds == InitIds /\ [][NextIds]_vars

(***************************************************************************)
(* Properties of the damage state ids                                      *)
(***************************************************************************)

\* the number of damage states of a limit state
StatesOf(ls) == Max(frg_params[ls].ds_weights, 1)

\* the number of damage states of the defined limit states below ls
StatesBelow(ls) ==
    SumOver([k \in DOMAIN frg_params |-> StatesOf(k)],
            {k \in DOMAIN frg_params : k < ls /\ frg_params[k].theta_0})

\* C25: in every block the damage state picked for a defined limit state
\* lies in the range of ids that follows the ranges of the defined limit
\* states below it: one id for a limit state with a single damage state, k
\* ids for one with k weights, starting at 1 in the first defined limit
\* state; ids of a higher limit state are above those of any lower one and
\* 0 is never picked.
C25_DamageStateIdRanges ==
    pc = "demand_type" =>
        /\ \A t \in DOMAIN lsds_sample : \A r \in Realizations :
              /\ lsds_sample[t][r] # 0
              /\ frg_params[t[2]].theta_0 =>
                    /\ lsds_sample[t][r] >= StatesBelow(t[2]) + 1
                    /\ lsds_sample[t][r] <= StatesBelow(t[2]) + StatesOf(t[2])
        /\ \A t, u \in DOMAIN lsds_sample : \A r, q \in Realizations :
              (t[1] = u[1] /\ t[2] < u[2]) => lsds_sample[t][r] < lsds_sample[u][q]

\* the performance group is fragility-based: no limit state of the
\* component is a damage function
FragilityBased ==
    \A ls \in DOMAIN frg_params : frg_params[ls].family # "function"

\* the capacity variables of the limit states the component defines, in
\* block b
BlockCapacityRVs(b) == {<<b, ls>> : ls \in DefinedLS}

\* the random variables of an RV set
MembersOf(s) == {s.RVs[k] : k \in DOMAIN s.RVs}

\* C11: for every block of a fragility-based performance group with at
\* least one defined limit state the capacity registry holds exactly one RV
\* set; the set holds exactly the capacity variables of the limit states of
\* that block, each once, its correlation matrix is square with as many
\* rows as the block has such variables and every entry is 1, and no set
\* holds variables of two blocks.
C11_OneRVSetPerBlock ==
    (pc = "demand_type" /\ FragilityBased /\ DefinedLS # {}) =>
        /\ \A b \in 1..Len(block_weights(Blocks)) :
              LET own == {s \in capacity_RV_sets : \E m \in MembersOf(s) : m[1] = b}
                  n == Cardinality(BlockCapacityRVs(b))
              IN /\ Cardinality(own) = 1
                 /\ \A s \in own :
                       /\ MembersOf(s) = BlockCapacityRVs(b)
                       /\ Len(s.RVs) = n
                       /\ DOMAIN s.Rho = (1..n) \X (1..n)
                       /\ \A ij \in DOMAIN s.Rho : s.Rho[ij] = 1
        /\ \A s \in capacity_RV_sets :
              \A m1, m2 \in MembersOf(s) : m1[1] = m2[1]

(***************************************************************************)
(* Components with many limit states: one block, every limit state with a  *)
(* single damage state, evaluated as in calculate                          *)
(***************************************************************************)

MaxManyLS == 10     \* limit states of a component with many limit states

\* the rows with n limit states, all defined, each with one damage state
ManyLSRow(n) ==
    [ls \in 1..n |-> [theta_0 |-> TRUE, family |-> "lognormal", ds_weights |-> 0]]

\* capacity samples of perfectly correlated limit states: the limit states
\* up to some LSk have the capacity lo, the higher ones the capacity hi
OrderedCapacitySamples(params, blocks) ==
    LET tags == {rv.tag : rv \in dmg_RV_tags(params, blocks)}
    IN {[t \in tags |-> [r \in Realizations |-> IF t[2] <= k THEN lo ELSE hi]] :
           k \in 0..Len(params), lo \in 1..MaxCapacity, hi \in 1..MaxCapacity}

InitManyLS ==
    /\ pc = "generate_ordered"
    /\ log = <<>>
    /\ frg_params \in {ManyLSRow(MaxManyLS - 1), ManyLSRow(MaxManyLS)}
    /\ attribute_str = None
    /\ Blocks = get_attribute(attribute_str)
    /\ capacity_sample = None
    /\ lsds_sample = None
    /\ capacity_RV_sets = {}
    /\ EDP_req = None
    /\ demand_columns = {}
    /\ demand = None
    /\ error = NoError
    /\ ds_sample = None
    /\ cmp_qnt = None
    /\ res = None
    /\ IdleProc
    /\ IdleLoss
    /\ IdleAux

\* _generate_dmg_sample with capacities that do not decrease with the
\* limit state
GenerateOrderedDmgSample ==
    /\ pc = "generate_ordered"
    /\ capacity_sample' \in OrderedCapacitySamples(frg_params, Blocks)
    /\ lsds_sample' \in LsdsSamplesOf(frg_params, Blocks)
    /\ capacity_RV_sets' = frg_RV_sets_of(frg_params, Blocks)
    /\ pc' = "demand_type"
    /\ UNCHANGED <<auxVars, procVars, lossVars, log, frg_params, attribute_str,
                   Blocks, EDP_req, demand_columns, demand, error, ds_sample,
                   cmp_qnt, res>>

NextManyLS ==
    \/ GenerateOrderedDmgSample
    \/ GetRequiredDemandType
    \/ AssembleRequiredDemandData
    \/ EvaluateDamageState

SpecManyLS == InitManyLS /\ [][NextManyLS]_vars

(***************************************************************************)
(* Properties of the order of the limit states                             *)
(***************************************************************************)

\* the limit states whose capacity is below the demand in realization r
ExceededLimitStates(r) ==
    {ls \in DOMAIN frg_params : capacity_sample[<<1, ls>>][r] * 10 < demand[r]}

\* C26: the limit states are visited in the ascending order of their
\* numbers, with ten limit states and more as well, so that the damage
\* state assigned to the block is that of the highest exceeded limit state
\* (here damage state i belongs to limit state i), and 0 when none is
\* exceeded.
C26_LimitStatesInNumericalOrder ==
    /\ capacity_sample # None =>
          ls_list_of(DOMAIN capacity_sample) = [i \in 1..Len(frg_params) |-> i]
    /\ Evaluated =>
          \A r \in Realizations :
              /\ ExceededLimitStates(r) = {} => ds_sample[1][r] = 0
              /\ ExceededLimitStates(r) # {} =>
                    /\ ds_sample[1][r] \in ExceededLimitStates(r)
                    /\ \A ls \in ExceededLimitStates(r) : ls <= ds_sample[1][r]

(***************************************************************************)
(* Properties of the quantities pooled for economies of scale              *)
(***************************************************************************)

Pooled == pc \in {"medians", "combine", "override", "done", "raised"}

\* the columns of the damage sample pooled into group k that hold damage
DamagedColumns(k) ==
    {c \in DOMAIN damage_sample : eco_key(c, eco_scale) = k /\ c[4] >= 1}

\* C27: with AcrossDamageStates=true the quantity pooled for a component
\* (at a location, unless floors are pooled too) is the sum of its
\* quantities in the damage states 1 and above; the quantity in damage
\* state 0 is not part of it, so the pooled quantity is 0 where the
\* component is undamaged.
C27_PooledQuantityIsDamage ==
    (Pooled /\ eco_scale.AcrossDamageStates) =>
        \A k \in DOMAIN eco_qnt : \A r \in Realizations :
            eco_qnt[k][r] =
                RatSumOver([c \in DOMAIN damage_sample |-> fillna(damage_sample[c][r])],
                           DamagedColumns(k))

(***************************************************************************)
(* Properties of the medians without economies of scale                    *)
(***************************************************************************)

NoEconomiesOfScale == ~eco_scale.AcrossFloors /\ ~eco_scale.AcrossDamageStates

\* the damaged quantities (damage state 1 and above) of the driver of a row
\* of the loss map for which the consequence has a median
ConsequenceColumns(id, t) ==
    {c \in DOMAIN damage_sample :
        /\ c[1] = loss_map[id].Driver[2]
        /\ c[4] >= 1
        /\ c[4] \in LossDS
        /\ theta_0(loss_map[id].Consequence, t, c[4]) # NaN}

\* C28: without economies of scale the median of (component, damage state
\* d, location l) is the median function of damage state d at the quantity
\* of the component in damage state d at location l: it is stored under
\* (component, d, l) with that value, and no lookup of a median fails
\* while some component is damaged.
C28_MedianPerDamageStateAndLocation ==
    NoEconomiesOfScale =>
        /\ error = "KeyError" =>
              \A t \in DV_types : \A id \in DOMAIN loss_map :
                  ConsequenceColumns(id, t) = {}
        /\ MediansEvaluated =>
              \A t \in DV_types : \A id \in DOMAIN loss_map :
                  \A c \in ConsequenceColumns(id, t) :
                      /\ t \in DOMAIN medians
                      /\ <<id, c[4], c[2]>> \in DOMAIN medians[t]
                      /\ \A r \in Realizations :
                            medians[t][<<id, c[4], c[2]>>][r] =
                                constant_median_DV(
                                    theta_0(loss_map[id].Consequence, t, c[4]),
                                    eco_qnt[<<c[1], c[2], c[4]>>][r])

(***************************************************************************)
(* BldgRepairModel._create_DV_RVs: the deviations of repair cost and time  *)
(***************************************************************************)

\* the distribution families and dispersions of the consequence models; a
\* cell without a distribution has Family "None" (NaN in the table)
NoFamily == [Family |-> "None", Theta_1 |-> NaN]

FamilyCells ==
    {NoFamily, [Family |-> "normal", Theta_1 |-> RatInt(1)],
     [Family |-> "lognormal", Theta_1 |-> RatInt(2)]}

\* loss_params after load_model: one row per (consequence named in the
\* loss map, 'Cost' or 'Time'), one cell per damage state; replacement
\* has one damage state
LossParams ==
    {lp \in [{"replacement", "B1"} \X {"Cost", "Time"} ->
                [LossDS -> FamilyCells]] :
        \A t \in {"Cost", "Time"} : lp[<<"replacement", t>>][2] = NoFamily}

\* dmg_quantities.columns: (cmp, loc, dir, ds)
CaseColumns ==
    {<<"collapse", "0", "1", 0>>, <<"collapse", "0", "1", 1>>,
     <<"B1", "1", "1", 0>>, <<"B1", "1", "1", 1>>, <<"B1", "1", "1", 2>>,
     <<"B1", "2", "1", 1>>}

\* the random variables of one row of the loss map: the parameters are
\* looked up under the id of the driver component; case_DF has the levels
\* (cmp, ds, dir, loc), so that the pair unpacked as (loc, dir) holds the
\* direction first
DV_RVs_of(id, LP, cases) ==
    LET driver_cmp_id == loss_map[id].Driver[2]
        \* cost_params, time_params: None when the row is not in LP.index
        family(t, ds) == IF <<driver_cmp_id, t>> \in DOMAIN LP
                         THEN LP[<<driver_cmp_id, t>>][ds] ELSE NoFamily
        own == {c \in cases : c[1] = driver_cmp_id /\ c[4] # 0}
        RV(T, t, c) ==
            [name |-> <<T, id, c[4], c[3], c[2]>>,
             distribution |-> family(t, c[4]).Family,
             theta |-> <<RatInt(1), family(t, c[4]).Theta_1>>]
    IN {RV("COST", "Cost", c) :
            c \in {x \in own : family("Cost", x[4]) # NoFamily}}
       \cup
       {RV("TIME", "Time", c) :
            c \in {x \in own : family("Time", x[4]) # NoFamily}}

\* the RV sets of one row: cost and time of a case are correlated when both
\* have a distribution and rho_cost_time is not zero
DV_RV_sets_of(id, LP, cases, rho) ==
    LET rvs == DV_RVs_of(id, LP, cases)
    IN IF rho = 0 THEN {}
       ELSE {[name |-> <<"DV">> \o Tail(q[1].name),
              RVs |-> {q[1].name, q[2].name}] :
                 q \in {x \in rvs \X rvs :
                          /\ x[1].name[1] = "COST"
                          /\ x[2].name[1] = "TIME"
                          /\ Tail(x[1].name) = Tail(x[2].name)}}

\* _create_DV_RVs(case_list): the registry, or None without any variable
create_DV_RVs(LP, cases, rho) ==
    LET rvs == UNION {DV_RVs_of(id, LP, cases) : id \in DOMAIN loss_map}
    IN IF rvs = {} THEN None
       ELSE [RVs |-> rvs,
             RV_sets |-> UNION {DV_RV_sets_of(id, LP, cases, rho) :
                                   id \in DOMAIN loss_map}]

InitDVRV ==
    /\ pc = "create_DV_RVs"
    /\ log = <<>>
    /\ error = NoError
    /\ IdleEval
    /\ IdleProc
    /\ IdleLoss
    /\ IdleButDVRV
    /\ loss_params \in LossParams
    /\ case_list \in SUBSET CaseColumns
    /\ \E c \in case_list : c[4] # 0
    /\ rho_cost_time \in {0, 1}
    /\ RV_reg = None

\* RV_reg = self._create_DV_RVs(dmg_quantities.columns)
CreateDVRVs ==
    /\ pc = "create_DV_RVs"
    /\ RV_reg' = create_DV_RVs(loss_params, case_list, rho_cost_time)
    /\ pc' = "done"
    /\ UNCHANGED <<log, error, evalVars, procVars, lossVars, auxButDVRV,
                   loss_params, case_list, rho_cost_time>>

NextDVRV == CreateDVRVs

SpecDVRV == InitDVRV /\ [][NextDVRV]_vars

\* the random variables in the registry
RegisteredRVs == IF RV_reg = None THEN {} ELSE RV_reg.RVs

\* C29: for each loss-map entry and each damage state of its driver in the
\* case list, a cost (time) deviation variable exists exactly when the
\* consequence model the entry names has a Family for that damage state,
\* and it carries that model's Family and Theta_1.
C29_DeviationsFollowConsequenceModel ==
    pc = "done" =>
        \A id \in DOMAIN loss_map : \A T \in DV_types :
            \A c \in {x \in case_list :
                        x[1] = loss_map[id].Driver[2] /\ x[4] # 0} :
                LET t == IF T = "COST" THEN "Cost" ELSE "Time"
                    cell == loss_params[<<loss_map[id].Consequence, t>>][c[4]]
                    made == {rv \in RegisteredRVs :
                                /\ rv.name[1] = T
                                /\ rv.name[2] = id
                                /\ rv.name[3] = c[4]}
                IN /\ made # {} <=> cell # NoFamily
                   /\ \A rv \in made :
                         /\ rv.distribution = cell.Family
                         /\ rv.theta = <<RatInt(1), cell.Theta_1>>
====
